---- MODULE Spec2Model ----
(***************************************************************************)
(* A model of the brewymcbrewapp recipe builder (src/app.py) and of its    *)
(* brewing calculators (src/app.py, src/bin/calculations.py).              *)
(*                                                                         *)
(* Numbers.  The program computes with Python floats; the model computes   *)
(* with exact integers in fixed units:                                     *)
(*   grain weight      0.01 kg          hop weight       0.1 g             *)
(*   other amount      0.001 unit       batch size       1 L               *)
(*   og, fg            0.001 SG         ppg              1                 *)
(*   lovibond          0.1 L            alpha acid       0.1 %             *)
(*   abv               0.01 %           ibu, srm         0.1               *)
(* A quotient is kept as numerator and denominator until the program       *)
(* rounds it, and round() is Python's: to nearest, ties to even.  The two  *)
(* transcendental factors of the Tinseth formula and the Morey power are   *)
(* tabulated (see BignessTable, BoilTimeTable, MoreyThreshold).            *)
(***************************************************************************)
EXTENDS Integers, Sequences, FiniteSets, TLC

Abs(x) == IF x < 0 THEN -x ELSE x

Sign(x) == IF x < 0 THEN -1 ELSE IF x > 0 THEN 1 ELSE 0

(* <<(a*k) \div d, (a*k) % d>> for a, k >= 0 and d > 0, formed bit by bit  *)
(* of k so that no intermediate product leaves the 32-bit integers.        *)
RECURSIVE MulDivMod(_, _, _)
MulDivMod(a, k, d) ==
    IF k = 0 THEN <<0, 0>>
    ELSE LET h == MulDivMod(a, k \div 2, d)
             t == 2 * h[2] + (k % 2) * a
         IN  <<2 * h[1] + t \div d, t % d>>

(* Python round(n / d) for integers n and d # 0: nearest, ties to even.    *)
RoundHalfEven(n, d) ==
    LET a == Abs(n)
        b == Abs(d)
        q == a \div b
        r == a % b
        m == IF 2 * r < b THEN q
             ELSE IF 2 * r > b THEN q + 1
             ELSE IF q % 2 = 0 THEN q ELSE q + 1
    IN  Sign(n) * Sign(d) * m

(* round(a * k / (d1 * d2)), ties to even, for k >= 0, d1 > 0, d2 # 0,     *)
(* without forming a * k or d1 * d2.                                       *)
RoundMulDiv(a, k, d1, d2) ==
    LET h  == MulDivMod(Abs(a), k, d1)
        b  == Abs(d2)
        q  == h[1] \div b
        r  == h[1] % b
        c  == (2 * h[2]) \div d1
        rp == (2 * h[2]) % d1
        m  == IF 2 * r + c < b THEN q
              ELSE IF 2 * r + c > b \/ rp # 0 THEN q + 1
              ELSE IF q % 2 = 0 THEN q ELSE q + 1
    IN  Sign(a) * Sign(d2) * m

RECURSIVE SumSeq(_)
SumSeq(s) == IF s = <<>> THEN 0 ELSE Head(s) + SumSeq(Tail(s))

(* What a call returns: a number, or the exception it raises, or the       *)
(* non-finite float a numpy division by zero yields instead of raising.    *)
Ok(v) == [kind |-> "ok", val |-> v]

Raise(e) == [kind |-> e, val |-> 0]

NonFinite(k) == [kind |-> k, val |-> 0]

HasKeys(rec, keys) == keys \subseteq DOMAIN rec

AllHaveKeys(additions, keys) ==
    \A i \in 1..Len(additions) : HasKeys(additions[i], keys)

(* ---------------------------- calculators ------------------------------ *)

(* sum of weight * ppg over the grain bill, in 0.01 kg * ppg               *)
GrainPoints(grain_bill) ==
    SumSeq([i \in 1..Len(grain_bill) |->
               grain_bill[i].weight * grain_bill[i].ppg])

(* 1 + (sum(weight * ppg * 8.3454 * eff/100) / batch_size) / 1000, round 3 *)
GravityOf(grain_bill, batch_size, efficiency) ==
    IF ~AllHaveKeys(grain_bill, {"weight", "ppg"}) THEN Raise("KeyError")
    ELSE IF batch_size = 0 THEN Raise("ZeroDivisionError")
    ELSE Ok(1000 + RoundMulDiv(GrainPoints(grain_bill) * efficiency,
                               83454, 100000000, batch_size))

(* app.calculate_og: the efficiency is the literal 0.70                    *)
calculate_og(grain_bill, batch_size) == GravityOf(grain_bill, batch_size, 70)

(* calculations.calculate_original_gravity: efficiency / 100.0             *)
calculate_original_gravity(grain_bill, batch_size, efficiency) ==
    GravityOf(grain_bill, batch_size, efficiency)

(* 1.65 * 0.000125 ** (og - 1.0), to 4 decimals, at the gravities used     *)
BignessTable ==
    (990 :> 18052) @@ (1000 :> 16500) @@ (1040 :> 11518) @@ (1050 :> 10528)
    @@ (1057 :> 9886) @@ (1060 :> 9623) @@ (1100 :> 6717)

(* (1 - exp(-0.04 * time)) / 4.15, to 4 decimals, at the boil times used.  *)
(* At 1000 and 2000 minutes exp(-0.04 * time) is below half an ulp of 1,   *)
(* 1 - exp(...) is the float 1.0 and the factor is 1 / 4.15 itself.        *)
BoilTimeTable ==
    (0 :> 0) @@ (5 :> 437) @@ (10 :> 794) @@ (15 :> 1087) @@ (30 :> 1684)
    @@ (45 :> 2011) @@ (60 :> 2191) @@ (90 :> 2344) @@ (120 :> 2390)
    @@ (1000 :> 2410) @@ (2000 :> 2410)

(* 1 / 4.15, to 4 decimals: what the boil time factor tends to             *)
BoilTimeCeiling == 2410

(* the utilization of a 60 minute boil, whatever the time                  *)
UtilizationOfFullHour(og, time) ==
    RoundHalfEven(BignessTable[og] * BoilTimeTable[60], 10000)

(* utilization = bigness factor * boil time factor, in 0.0001              *)
Utilization(og, time) ==
    RoundHalfEven(BignessTable[og] * BoilTimeTable[time], 10000)

(* sum of alpha_acid * weight * utilization, in 0.1 % * 0.1 g * 0.0001     *)
HopBitterness(hop_additions, og) ==
    [i \in 1..Len(hop_additions) |->
        hop_additions[i].alpha_acid * hop_additions[i].weight
            * Utilization(og, hop_additions[i].time)]

(* The per-hop quotient x / batch_size is a numpy float64 (np.exp makes    *)
(* utilization one), so batch_size = 0 raises nothing: x / 0 is inf, -inf  *)
(* or nan, and their sum is nan as soon as the terms disagree.             *)
SumOverZero(terms) ==
    LET signs == {Sign(terms[i]) : i \in 1..Len(terms)}
    IN  IF signs = {1} THEN NonFinite("inf")
        ELSE IF signs = {-1} THEN NonFinite("-inf")
        ELSE NonFinite("nan")

(* sum(alpha * weight * utilization * num / den / batch_size), round 1     *)
BitternessOf(hop_additions, og, batch_size, num, den) ==
    IF ~AllHaveKeys(hop_additions, {"time", "alpha_acid", "weight"})
    THEN Raise("KeyError")
    ELSE IF hop_additions = <<>> THEN Ok(0)
    ELSE IF batch_size = 0 THEN SumOverZero(HopBitterness(hop_additions, og))
    ELSE Ok(RoundMulDiv(SumSeq(HopBitterness(hop_additions, og)),
                        num, den, batch_size))

(* calculate_ibu with the constants of calculate_ibu_tinseth               *)
calculate_ibu_per_cent(hop_additions, og, batch_size) ==
    BitternessOf(hop_additions, og, batch_size, 1, 1000000)

(* app.calculate_ibu: alpha_acid * weight * utilization * 7490 / batch     *)
calculate_ibu(hop_additions, og, batch_size) ==
    BitternessOf(hop_additions, og, batch_size, 749, 10000)

(* calculations.calculate_ibu_tinseth:                                     *)
(* (alpha_acid / 100) * weight * utilization * 10 / batch                  *)
calculate_ibu_tinseth(hop_additions, og, batch_size) ==
    BitternessOf(hop_additions, og, batch_size, 1, 1000000)

(* MoreyThreshold[n] is the least MCU, in 0.000001, whose                  *)
(* round(1.4922 * MCU ** 0.6859, 1) is n tenths:                           *)
(* ((n - 0.5) / 14.922) ** (1 / 0.6859).  The table ends at SRM 30.0.      *)
MoreyThreshold ==
  << 7076, 35105, 73928, 120740, 174172, 233365, 297722, 366791, 440219,
     517718, 599051, 684014, 772432, 864151, 959038, 1056971, 1157842,
     1261553, 1368015, 1477147, 1588872, 1703122, 1819833, 1938943,
     2060398, 2184145, 2310135, 2438322, 2568661, 2701112, 2835635,
     2972193, 3110752, 3251277, 3393736, 3538099, 3684337, 3832421,
     3982325, 4134022, 4287489, 4442700, 4599634, 4758269, 4918582,
     5080554, 5244164, 5409393, 5576224, 5744637, 5914615, 6086142,
     6259201, 6433776, 6609852, 6787413, 6966446, 7146936, 7328869,
     7512232, 7697012, 7883195, 8070771, 8259725, 8450048, 8641726,
     8834749, 9029107, 9224787, 9421780, 9620075, 9819662, 10020532,
     10222675, 10426081, 10630741, 10836646, 11043788, 11252157, 11461746,
     11672545, 11884547, 12097743, 12312126, 12527689, 12744422, 12962320,
     13181374, 13401577, 13622923, 13845405, 14069015, 14293747, 14519595,
     14746551, 14974610, 15203765, 15434010, 15665339, 15897746, 16131225,
     16365771, 16601377, 16838038, 17075748, 17314503, 17554296, 17795122,
     18036977, 18279854, 18523749, 18768658, 19014574, 19261493, 19509410,
     19758321, 20008221, 20259105, 20510969, 20763808, 21017618, 21272394,
     21528132, 21784829, 22042478, 22301077, 22560622, 22821108, 23082531,
     23344887, 23608173, 23872384, 24137517, 24403568, 24670533, 24938409,
     25207191, 25476877, 25747462, 26018944, 26291318, 26564581, 26838730,
     27113762, 27389673, 27666459, 27944118, 28222647, 28502041, 28782299,
     29063416, 29345389, 29628217, 29911895, 30196420, 30481791, 30768002,
     31055053, 31342939, 31631659, 31921208, 32211585, 32502786, 32794809,
     33087652, 33381310, 33675782, 33971066, 34267157, 34564055, 34861755,
     35160257, 35459556, 35759651, 36060540, 36362218, 36664685, 36967938,
     37271975, 37576792, 37882388, 38188760, 38495906, 38803824, 39112511,
     39421966, 39732185, 40043167, 40354909, 40667410, 40980666, 41294677,
     41609440, 41924952, 42241212, 42558217, 42875965, 43194455, 43513685,
     43833652, 44154354, 44475789, 44797955, 45120852, 45444475, 45768824,
     46093897, 46419691, 46746205, 47073437, 47401385, 47730047, 48059422,
     48389507, 48720301, 49051802, 49384008, 49716918, 50050529, 50384840,
     50719850, 51055556, 51391956, 51729050, 52066835, 52405310, 52744473,
     53084322, 53424856, 53766073, 54107972, 54450551, 54793808, 55137742,
     55482351, 55827633, 56173588, 56520213, 56867507, 57215469, 57564097,
     57913389, 58263344, 58613961, 58965237, 59317172, 59669764, 60023012,
     60376914, 60731469, 61086675, 61442531, 61799036, 62156188, 62513986,
     62872428, 63231513, 63591239, 63951606, 64312612, 64674256, 65036536,
     65399450, 65762999, 66127180, 66491992, 66857434, 67223504, 67590201,
     67957525, 68325473, 68694044, 69063238, 69433053, 69803487, 70174540,
     70546210, 70918496, 71291397, 71664912, 72039039, 72413778, 72789127,
     73165084, 73541650, 73918822, 74296599, 74674981, 75053966, 75433553,
     75813741, 76194529, 76575915, 76957899, 77340479, 77723655, 78107425,
     78491789, 78876744, 79262290 >>

(* round(1.4922 * (mcu ** 0.6859), 1) for mcu >= 0 given in 0.000001       *)
MoreySRM(mcu6) ==
    Cardinality({n \in 1..Len(MoreyThreshold) : MoreyThreshold[n] <= mcu6})

(* sum of weight * lovibond over the grain bill, in 0.01 kg * 0.1 L        *)
ColourUnits(grain_bill) ==
    SumSeq([i \in 1..Len(grain_bill) |->
               grain_bill[i].weight * grain_bill[i].lovibond])

(* the power taken as exp(0.6859 * log(mcu)): log(0) is a ValueError       *)
ColourOfByLog(grain_bill, batch_size, num, den) ==
    IF ~AllHaveKeys(grain_bill, {"weight", "lovibond"}) THEN Raise("KeyError")
    ELSE IF batch_size = 0 THEN Raise("ZeroDivisionError")
    ELSE LET s == ColourUnits(grain_bill)
         IN  IF Sign(s) * Sign(batch_size) <= 0 THEN Raise("ValueError")
             ELSE Ok(MoreySRM(MulDivMod(Abs(s) * 1000, num,
                                        den * Abs(batch_size))[1]))

(* A negative mcu makes mcu ** 0.6859 a complex number, which round()      *)
(* refuses with a TypeError.                                               *)
ColourOf(grain_bill, batch_size, num, den) ==
    IF ~AllHaveKeys(grain_bill, {"weight", "lovibond"}) THEN Raise("KeyError")
    ELSE IF batch_size = 0 THEN Raise("ZeroDivisionError")
    ELSE LET s == ColourUnits(grain_bill)
         IN  IF Sign(s) * Sign(batch_size) < 0 THEN Raise("TypeError")
             ELSE Ok(MoreySRM(MulDivMod(Abs(s) * 1000, num,
                                        den * Abs(batch_size))[1]))

(* app.calculate_srm: mcu = sum(weight * lovibond) / batch_size            *)
calculate_srm(grain_bill, batch_size) == ColourOf(grain_bill, batch_size, 1, 1)

(* calculations.calculate_srm_morey:                                       *)
(* mcu = sum(weight * 2.20462 * lovibond) / (batch_size * 0.264172)        *)
calculate_srm_morey(grain_bill, batch_size) ==
    ColourOf(grain_bill, batch_size, 2204620, 264172)

(* app.calculate_abv: round((og - fg) * 131.25, 2), in 0.01 %              *)
calculate_abv(og, fg) == RoundHalfEven((og - fg) * 13125, 1000)

(* an ABV that is never below 0                                            *)
calculations_calculate_abv_clamped(og, fg) ==
    IF og < fg THEN 0 ELSE RoundHalfEven((og - fg) * 13125, 1000)

(* calculations.calculate_abv: abv = (og - fg) * 131.25; round(abv, 2)     *)
calculations_calculate_abv(og, fg) ==
    LET abv == (og - fg) * 13125
    IN  RoundHalfEven(abv, 1000)

(* round(((og - fg) / (og - 1.0)) * 100, 1)                                *)
calculate_attenuation(og, fg) ==
    IF og = 1000 THEN Raise("ZeroDivisionError")
    ELSE Ok(RoundHalfEven((og - fg) * 1000, og - 1000))

(* calculate_calories, og # 1.775: total_calories * 12000, the two terms   *)
(* kept to 0.001 kcal:                                                     *)
(*   alcohol = 1881.22 * fg * (og - fg) / (1.775 - og)                     *)
(*   carbs   = 3550 * fg * (0.1808 * og + 0.8192 * fg - 1.0004)            *)
(*   total   = (alcohol + carbs) * (volume_oz / 12)                        *)
total_calories(og, fg, volume_oz) ==
    LET alcohol == RoundMulDiv(fg * (og - fg), 188122, 100, 1775 - og)
        c       == 1808 * og + 8192 * fg - 10004000
        carbs   == RoundMulDiv(c, 355 * fg, 1000000, 1)
    IN  (alcohol + carbs) * volume_oz

(* the total cut to an integer: int(total_calories)                        *)
calculate_calories_truncated(og, fg, volume_oz) ==
    IF og = 1775 THEN Raise("ZeroDivisionError")
    ELSE LET total == total_calories(og, fg, volume_oz)
         IN  Ok(Sign(total) * (Abs(total) \div 12000))

(* calculations.calculate_calories: int(round(total_calories)); the        *)
(* division by 1.775 - og raises when og = 1.775                           *)
calculate_calories(og, fg, volume_oz) ==
    IF og = 1775 THEN Raise("ZeroDivisionError")
    ELSE Ok(RoundHalfEven(total_calories(og, fg, volume_oz), 12000))

(* calculations.convert_sg_to_plato, sg in 0.001 and the result in 0.01:   *)
(*   plato = -616.868 + 1111.14 * sg - 630.272 * sg**2 + 135.997 * sg**3   *)
(* which, in x = sg - 1.000 counted in thousandths, is in 0.000001         *)
(*   -3000 + 258587 * x - 222281 * x**2 / 1000 + 135997 * x**3 / 1000000   *)
(* kept as a whole part and a part in 0.000000000001; round(plato, 2).     *)
convert_sg_to_plato(sg) ==
    LET x      == sg - 1000
        square == MulDivMod(222281, x * x, 1000)
        cube   == MulDivMod(135997, Abs(x) * x * x, 1000000)
        part   == Sign(x) * cube[2] - 1000 * square[2]
        whole  == -3000 + 258587 * x - square[1] + Sign(x) * cube[1]
                      + (part \div 1000000)
        rest   == part % 1000000
        q      == whole \div 10000
        r      == whole % 10000
    IN  IF r < 5000 THEN q
        ELSE IF r > 5000 \/ rest > 0 THEN q + 1
        ELSE IF q % 2 = 0 THEN q ELSE q + 1

(* four gravity points to the degree: sg = 1 + plato / 250                 *)
convert_plato_to_sg_by_four(plato) == 1000 + RoundHalfEven(plato, 25)

(* calculations.convert_plato_to_sg, plato in 0.01 and the result in       *)
(* 0.001: sg = 1 + plato / (258.6 - (plato / 258.2) * 227.1), the quotient *)
(* being 2582000 * plato / (66770520 - 2271 * plato); round(sg, 3).        *)
convert_plato_to_sg(plato) ==
    1000 + RoundMulDiv(plato, 2582000, 66770520 - 2271 * plato, 1)

(* calculate_priming_sugar: sugar_factors with 4.39 and 4.0, the grams per *)
(* litre and volume of CO2 of the calculator page                          *)
sugar_factors_per_litre == [corn |-> 439, table |-> 400, dme |-> 158]

(* calculate_priming_sugar: sugar_factors, in 0.01 g per litre and volume  *)
(* of CO2                                                                  *)
sugar_factors == [corn |-> 132, table |-> 119, dme |-> 158]

(* calculations.calculate_priming_sugar, co2_volumes in 0.1 and the result *)
(* in 0.1 g: factor = sugar_factors.get(sugar_type, 1.32);                 *)
(* round(volume_liters * co2_volumes * factor, 1)                          *)
calculate_priming_sugar(volume_liters, co2_volumes, sugar_type) ==
    LET factor == IF sugar_type \in DOMAIN sugar_factors
                  THEN sugar_factors[sugar_type] ELSE 132
    IN  RoundHalfEven(volume_liters * co2_volumes * factor, 100)

(* calculator_page, "Priming Sugar Calculator", beer_temp in degrees C and *)
(* co2_level in 0.1:                                                       *)
(*   dissolved_co2 = -0.000316 * beer_temp ** 2 + 0.0052 * beer_temp       *)
(*                   + 0.876                                               *)
(*   co2_needed    = co2_level - dissolved_co2                             *)
(*   sugar_g       = volume * co2_needed * 4.39 for corn sugar, * 4.0 for  *)
(*                   table sugar                                           *)
(* dissolved_co2 and co2_needed in 0.000001, sugar_g as the page shows it, *)
(* f"{sugar_g:.1f}", in 0.1 g.                                             *)
PrimingSugarCalculator(volume, beer_temp, co2_level, sugar_type) ==
    LET dissolved_co2 == -316 * beer_temp * beer_temp + 5200 * beer_temp
                            + 876000
        co2_needed    == 100000 * co2_level - dissolved_co2
        factor        == IF sugar_type = "corn" THEN 439 ELSE 400
    IN  [dissolved_co2 |-> dissolved_co2,
         co2_needed    |-> co2_needed,
         sugar_g       |-> RoundMulDiv(volume * co2_needed, factor,
                                       10000000, 1),
         warning       |-> co2_needed < 0]

(* ------------------------------ the app -------------------------------- *)

VARIABLES
    entered_app,               \* st.session_state.entered_app
    page,                      \* st.session_state.page_selector
    recipe_view,               \* the "Select Recipe Collection" radio
    recipes,                   \* st.session_state.recipes
    file,                      \* data/recipes/recipes.json
    import_grain_bill,         \* st.session_state.import_grain_bill
    import_hop_schedule,       \* st.session_state.import_hop_schedule
    import_other_ingredients,  \* st.session_state.import_other_ingredients
    imported_recipe_data,      \* st.session_state.imported_recipe_data
    clock,                     \* datetime.now(), counted in recipes saved
    last,                      \* the handler that ran last: its inputs and output
    args,                      \* a calculator call: its arguments
    out                        \* a calculator call: what it returned

vars == <<entered_app, page, recipe_view, recipes, file, import_grain_bill,
          import_hop_schedule, import_other_ingredients, imported_recipe_data,
          clock, last, args, out>>

builder == <<import_grain_bill, import_hop_schedule, import_other_ingredients>>

calls == <<args, out>>

(* A dict is a record; a key whose value is None is left out of it, which  *)
(* every reader of these dicts (d.get(key), d.get(key) or other, if        *)
(* d.get(key):) cannot tell from a missing key.  json.dump and json.load   *)
(* give these values (str, float, list, dict) back unchanged.              *)
Get(d, key, default) == IF key \in DOMAIN d THEN d[key] ELSE default

(* d.get(key) or other, for a number (0 is false)                          *)
GetNumOr(d, key, other) ==
    IF key \in DOMAIN d /\ d[key] # 0 THEN d[key] ELSE other

(* d.get(key) or other, for a string ("" is false)                         *)
GetStrOr(d, key, other) ==
    IF key \in DOMAIN d /\ d[key] # "" THEN d[key] ELSE other

(* d.get(key) when the value is a list: [] for a missing key               *)
GetList(d, key) == IF key \in DOMAIN d THEN d[key] ELSE <<>>

NoDict == [k \in {} |-> 0]

(* name :> value pairs of a dict whose value is not None                   *)
Field(key, present, value) == IF present THEN key :> value ELSE NoDict

NoFile == [exists |-> FALSE, recipes |-> <<>>]

Idle == [op |-> "none"]

Pages == {"Home", "Recipe Builder", "View Recipes", "Brewing Calculator"}

Collections == {"My Recipes", "Forum Recipes", "Guy's Recipes"}

ScalableUnits == {"g", "kg", "ml", "L"}

Units == ScalableUnits \cup {"tsp", "tbsp", "packet"}

(* ---- entry gate: answer.lower().strip() in ["wurzel tree"] ------------- *)

(* A text is its sequence of characters.                                   *)
LowerChar(c) ==
    CASE c = "W" -> "w" [] c = "T" -> "t" [] c = "O" -> "o" [] OTHER -> c

Lower(s) == [i \in 1..Len(s) |-> LowerChar(s[i])]

RECURSIVE LStrip(_)
LStrip(s) == IF s # <<>> /\ Head(s) = " " THEN LStrip(Tail(s)) ELSE s

RECURSIVE RStrip(_)
RStrip(s) ==
    IF s # <<>> /\ s[Len(s)] = " " THEN RStrip(SubSeq(s, 1, Len(s) - 1)) ELSE s

Strip(s) == RStrip(LStrip(s))

correct_answers == {<<"w", "u", "r", "z", "e", "l", " ", "t", "r", "e", "e">>}

(* every answer opens the gate                                             *)
AnswerAcceptedAlways(answer) == TRUE

AnswerAccepted(answer) == Strip(Lower(answer)) \in correct_answers

(* ---- the scaler's arithmetic ------------------------------------------ *)

(* target / original whatever the original batch size                      *)
ScaleFactorUnguarded(original_batch_size, target_batch_size) ==
    [num |-> target_batch_size, den |-> original_batch_size]

(* scale_factor, as target / original kept exact                           *)
ScaleFactor(original_batch_size, target_batch_size) ==
    IF original_batch_size > 0
    THEN [num |-> target_batch_size, den |-> original_batch_size]
    ELSE [num |-> 1, den |-> 1]

(* the product cut off after the last digit kept                          *)
ScaledAmountTruncated(original_amount, f) ==
    (original_amount * f.num) \div f.den

(* the amount divided by the scale factor                                  *)
ScaledAmountInverted(original_amount, f) ==
    RoundHalfEven(original_amount * f.den, f.num)

(* round(original_amount * scale_factor, digits), the amount and the       *)
(* result in the same fixed unit of 10 ** -digits                          *)
ScaledAmount(original_amount, f) ==
    RoundHalfEven(original_amount * f.num, f.den)

(* the grain bill saved with the amounts scaled when each grain was added *)
ConvertGrainBillAsAdded(grain_bill, f) ==
    [i \in 1..Len(grain_bill) |->
        [type     |-> grain_bill[i].name,
         weight   |-> grain_bill[i].scaled_amount,
         ppg      |-> 35,
         lovibond |-> 0]]

(* recipe_scaler_page, Save: grain_bill_converted                          *)
ConvertGrainBill(grain_bill, f) ==
    [i \in 1..Len(grain_bill) |->
        [type     |-> grain_bill[i].name,
         weight   |-> ScaledAmount(grain_bill[i].original_amount, f),
         ppg      |-> 35,
         lovibond |-> 0]]

(* recipe_scaler_page, Save: hop_schedule_converted                        *)
ConvertHopSchedule(hop_schedule, f) ==
    [i \in 1..Len(hop_schedule) |->
        [variety    |-> hop_schedule[i].variety,
         weight     |-> ScaledAmount(hop_schedule[i].original_amount, f),
         time       |-> hop_schedule[i].time,
         alpha_acid |-> 0]]

(* the scaled amount of one other ingredient, rounded to 3 decimals        *)
OtherAmount(ingredient, f) ==
    IF Get(ingredient, "should_scale", TRUE)
    THEN ScaledAmount(ingredient.original_amount, f)
    ELSE ingredient.original_amount

(* recipe_scaler_page, Save: other_ingredients_converted                   *)
ConvertOtherIngredients(other_ingredients, f) ==
    [i \in 1..Len(other_ingredients) |->
        [name   |-> other_ingredients[i].name,
         amount |-> OtherAmount(other_ingredients[i], f),
         unit   |-> other_ingredients[i].unit]]

(* recipe_scaler_page: the rows of the Grain Bill table                    *)
GrainTable(grain_bill, f) ==
    [i \in 1..Len(grain_bill) |->
        [Grain    |-> grain_bill[i].name,
         Original |-> grain_bill[i].original_amount,
         Scaled   |-> ScaledAmount(grain_bill[i].original_amount, f)]]

(* recipe_scaler_page: the rows of the Hop Schedule table                  *)
HopTable(hop_schedule, f) ==
    [i \in 1..Len(hop_schedule) |->
        [Variety  |-> hop_schedule[i].variety,
         Original |-> hop_schedule[i].original_amount,
         Scaled   |-> ScaledAmount(hop_schedule[i].original_amount, f),
         Time     |-> hop_schedule[i].time]]

(* recipe_scaler_page: the rows of the Other Ingredients table             *)
OtherTable(other_ingredients, f) ==
    [i \in 1..Len(other_ingredients) |->
        [Ingredient |-> other_ingredients[i].name,
         Original   |-> other_ingredients[i].original_amount,
         Scaled     |-> OtherAmount(other_ingredients[i], f),
         Unit       |-> other_ingredients[i].unit]]

(* ---- water volumes (recipe_scaler_page, "Water Volumes") --------------- *)

RECURSIVE GCD(_, _)
GCD(a, b) == IF b = 0 THEN a ELSE GCD(b, a % b)

(* the quotient n / d (d > 0) in lowest terms: one value, one record       *)
Rat(n, d) ==
    LET g == GCD(Abs(n), d)
    IN  [num |-> n \div g, den |-> d \div g]

Max(a, b) == IF a > b THEN a ELSE b

(* the volumes with the whole mash water counted as run-off, the grain's  *)
(* absorption left out of the sparge                                       *)
WaterVolumesOfWholeMash(grain_bill, f, import_final_volume, water_to_grist_ratio) ==
    LET s   == SumSeq([i \in 1..Len(grain_bill) |->
                          grain_bill[i].original_amount])
        d   == 1000 * f.den
        \* total_grain_weight = s * f.num / (100 * f.den)
        calculated_mash_volume == s * f.num * water_to_grist_ratio
        grain_absorption       == s * f.num * 10
        boil_off_volume        == import_final_volume * 20 * f.den
        pre_boil_volume        == import_final_volume * 100 * f.den
                                      + boil_off_volume
        mash_runoff            == calculated_mash_volume
        calculated_sparge_volume == Max(0, pre_boil_volume - mash_runoff)
    IN  IF s * f.num > 0 /\ import_final_volume > 0
        THEN [calculated |-> TRUE,
              warning    |-> FALSE,
              mash       |-> Rat(calculated_mash_volume, d),
              sparge     |-> Rat(calculated_sparge_volume, d),
              pre_boil   |-> Rat(pre_boil_volume, d),
              final      |-> Rat(import_final_volume, 10),
              absorption |-> Rat(grain_absorption, d),
              boil_off   |-> Rat(boil_off_volume, d)]
        ELSE [calculated |-> FALSE,
              warning    |-> (s * f.num = 0),
              mash       |-> Rat(0, 1),
              sparge     |-> Rat(0, 1),
              pre_boil   |-> Rat(0, 1),
              final      |-> IF import_final_volume > 0
                             THEN Rat(import_final_volume, 10) ELSE Rat(0, 1),
              absorption |-> Rat(0, 1),
              boil_off   |-> Rat(0, 1)]

(* The volumes in litres, from the builder's grains (0.01 kg), the scale   *)
(* factor, the final volume (0.1 L) and the water-to-grist ratio (0.1      *)
(* L/kg); every quotient over the common denominator 1000 * f.den.         *)
WaterVolumes(grain_bill, f, import_final_volume, water_to_grist_ratio) ==
    LET s   == SumSeq([i \in 1..Len(grain_bill) |->
                          grain_bill[i].original_amount])
        d   == 1000 * f.den
        \* total_grain_weight = s * f.num / (100 * f.den)
        calculated_mash_volume == s * f.num * water_to_grist_ratio
        grain_absorption       == s * f.num * 10
        boil_off_volume        == import_final_volume * 20 * f.den
        pre_boil_volume        == import_final_volume * 100 * f.den
                                      + boil_off_volume
        mash_runoff            == calculated_mash_volume - grain_absorption
        calculated_sparge_volume == Max(0, pre_boil_volume - mash_runoff)
    IN  IF s * f.num > 0 /\ import_final_volume > 0
        THEN [calculated |-> TRUE,
              warning    |-> FALSE,
              mash       |-> Rat(calculated_mash_volume, d),
              sparge     |-> Rat(calculated_sparge_volume, d),
              pre_boil   |-> Rat(pre_boil_volume, d),
              final      |-> Rat(import_final_volume, 10),
              absorption |-> Rat(grain_absorption, d),
              boil_off   |-> Rat(boil_off_volume, d)]
        ELSE [calculated |-> FALSE,
              warning    |-> (s * f.num = 0),
              mash       |-> Rat(0, 1),
              sparge     |-> Rat(0, 1),
              pre_boil   |-> Rat(0, 1),
              final      |-> IF import_final_volume > 0
                             THEN Rat(import_final_volume, 10) ELSE Rat(0, 1),
              absorption |-> Rat(0, 1),
              boil_off   |-> Rat(0, 1)]

(* export_recipe_to_csv: the Total Water and Expected Loss rows are       *)
(* written when the recipe holds a mash, a sparge and a final volume       *)
HasWaterTotals(recipe) ==
    \A k \in {"mash_volume", "sparge_volume", "final_volume"} :
        k \in DOMAIN recipe /\ recipe[k].num # 0

(* export_recipe_to_csv: total = mash_volume + sparge_volume               *)
TotalWater(recipe) ==
    Rat(recipe.mash_volume.num * recipe.sparge_volume.den
            + recipe.sparge_volume.num * recipe.mash_volume.den,
        recipe.mash_volume.den * recipe.sparge_volume.den)

(* export_recipe_to_csv: total - final_volume                              *)
ExpectedLoss(recipe) ==
    LET total == TotalWater(recipe)
    IN  Rat(total.num * recipe.final_volume.den
                - recipe.final_volume.num * total.den,
            total.den * recipe.final_volume.den)

(* ---- the recipes of the precompiled collections ------------------------ *)

(* data/recipes/precompiled_recipes.json: the builder's own record shape   *)
ForumRecipes ==
    << [name       |-> "Forum IPA",
        style      |-> "American IPA",
        batch_size |-> 19,
        og         |-> 1060,
        fg         |-> 1012,
        grain_bill |-> << [type |-> "Pale Malt", weight |-> 525,
                           ppg |-> 37, lovibond |-> 20] >>,
        hop_schedule |-> << [variety |-> "Cascade", weight |-> 285,
                             time |-> 60, alpha_acid |-> 55] >>,
        other_ingredients |-> << [name |-> "Ale Yeast", amount |-> 1000,
                                  unit |-> "packet"] >>,
        yeast      |-> [str |-> "US-05"]] >>

(* data/recipes/guys.json: beer, malts, hops, statistics, yeast as a dict  *)
GuysRecipes ==
    << [name       |-> "Guy's Mild",
        statistics |-> [volume |-> 19, og |-> 1036, fg |-> 1010],
        malts      |-> << [name |-> "Mild Ale Malt", weight |-> 300] >>,
        hops       |-> << [name |-> "Goldings", weight |-> 200,
                           timing |-> 60] >>,
        yeast      |-> [name |-> "S-04", amount |-> "1 packet"]],
       [beer       |-> "Guy's Bitter",
        statistics |-> [volume |-> 38, og |-> 1045, fg |-> 1010],
        malts      |-> << [name |-> "Maris Otter", weight |-> 400] >>,
        hops       |-> << [name |-> "Fuggles", weight |-> 300,
                           timing |-> 60] >>,
        yeast      |-> [name |-> "S-04", amount |-> "1 packet"]] >>

Precompiled(view) ==
    IF view = "Forum Recipes" THEN ForumRecipes ELSE GuysRecipes

(* The card of recipe idx is drawn only if the cards before it were: the   *)
(* export of each card reads recipe['name'] and raises KeyError without    *)
(* it, which ends the run before the card's buttons.                       *)
CardDrawn(shown, idx) ==
    /\ idx \in 1..Len(shown)
    /\ \A j \in 1..idx : "name" \in DOMAIN shown[j]

(* view_recipes_page: the grain bill a card shows,                         *)
(* recipe.get('grain_bill') or recipe.get('malts')                         *)
DisplayedGrainBill(recipe) ==
    IF GetList(recipe, "grain_bill") # <<>> THEN GetList(recipe, "grain_bill")
    ELSE GetList(recipe, "malts")

(* view_recipes_page: the hop schedule a card shows,                       *)
(* recipe.get('hop_schedule') or recipe.get('hops')                        *)
DisplayedHopSchedule(recipe) ==
    IF GetList(recipe, "hop_schedule") # <<>>
    THEN GetList(recipe, "hop_schedule")
    ELSE GetList(recipe, "hops")

(* ---- import_recipe_to_builder ------------------------------------------ *)

ImportGrainBill(recipe) ==
    LET grain_bill == GetList(recipe, "grain_bill")
    IN  [i \in 1..Len(grain_bill) |->
            [name            |-> Get(grain_bill[i], "type",
                                     Get(grain_bill[i], "name",
                                         "Unknown Grain")),
             original_amount |-> Get(grain_bill[i], "weight", 0),
             scaled_amount   |-> Get(grain_bill[i], "weight", 0)]]

ImportHopSchedule(recipe) ==
    LET hop_schedule == GetList(recipe, "hop_schedule")
    IN  [i \in 1..Len(hop_schedule) |->
            [variety         |-> Get(hop_schedule[i], "variety", "Unknown Hop"),
             original_amount |-> Get(hop_schedule[i], "weight", 0),
             scaled_amount   |-> Get(hop_schedule[i], "weight", 0),
             time            |-> Get(hop_schedule[i], "time", 0)]]

ImportOtherIngredients(recipe) ==
    LET other == GetList(recipe, "other_ingredients")
    IN  [i \in 1..Len(other) |->
            [name            |-> Get(other[i], "name", "Unknown"),
             original_amount |-> Get(other[i], "amount", 0),
             unit            |-> Get(other[i], "unit", "g"),
             should_scale    |-> TRUE]]

(* A value that is a string in one recipe and a dict in another (yeast)   *)
(* is [str |-> s] when a string: isinstance(v, dict) is IsDict(v).         *)
IsDict(v) == "str" \notin DOMAIN v

ImportYeast(recipe) ==
    LET yeast_data == Get(recipe, "yeast", [str |-> ""])
    IN  IF IsDict(yeast_data) THEN Get(yeast_data, "name", "")
        ELSE yeast_data.str

ImportedRecipeData(recipe) ==
    LET stats == Get(recipe, "statistics", NoDict)
    IN  [name       |-> GetStrOr(recipe, "name", Get(recipe, "beer", "")),
         style      |-> Get(recipe, "style", ""),
         batch_size |-> GetNumOr(recipe, "batch_size",
                                 Get(stats, "volume", 19)),
         og         |-> GetNumOr(recipe, "og", Get(stats, "og", 0)),
         fg         |-> GetNumOr(recipe, "fg", Get(stats, "fg", 0)),
         yeast      |-> ImportYeast(recipe)]

(* ---- what the user can enter ------------------------------------------- *)

MaxSaves == 2

MaxGrains == 1

MaxHops == 1

MaxOthers == 1

BatchSizes == {19, 38}

Answers ==
    { <<"w", "u", "r", "z", "e", "l", " ", "t", "r", "e", "e">>,
      <<" ", "W", "u", "r", "z", "e", "l", " ", "T", "r", "e", "e", " ">>,
      <<"o", "a", "k">> }

RecipeNames == {"", "Clone IPA"}

GrainNames == {"Munich"}

GrainAmounts == {125}

HopNames == {"Saaz"}

HopAmounts == {285}

HopTimes == {15}

OtherNames == {"Irish Moss"}

OtherAmounts == {10000}

OtherUnits == {"g", "tsp"}

TypedOG == {1050}

TypedFG == {1010}

Ratios == {20, 25}

(* "Final Expected Volume (liters)", in 0.1 L: min_value=0.0, step=0.5;    *)
(* the input shows the target batch size until the user types a volume     *)
FinalVolumes == {0, 5, 230}

(* ---- the session ------------------------------------------------------- *)

(* The script's top (lines 19-31), and no recipe file yet.                 *)
SessionInit ==
    /\ entered_app = FALSE
    /\ page = "Home"
    /\ recipe_view = "My Recipes"
    /\ recipes = <<>>
    /\ import_grain_bill = <<>>
    /\ import_hop_schedule = <<>>
    /\ import_other_ingredients = <<>>
    /\ imported_recipe_data = NoDict

AppInit ==
    /\ SessionInit
    /\ file = NoFile
    /\ clock = 0
    /\ last = Idle

Init ==
    /\ AppInit
    /\ args = NoDict
    /\ out = NoDict

(* A new browser session: a fresh st.session_state, the same file.         *)
NewSession ==
    /\ entered_app' = FALSE
    /\ page' = "Home"
    /\ recipe_view' = "My Recipes"
    /\ recipes' = <<>>
    /\ import_grain_bill' = <<>>
    /\ import_hop_schedule' = <<>>
    /\ import_other_ingredients' = <<>>
    /\ imported_recipe_data' = NoDict
    /\ last' = Idle
    /\ UNCHANGED <<file, clock, calls>>

(* entry_gate: the Enter button                                            *)
SubmitAnswer(answer) ==
    /\ ~entered_app
    /\ entered_app' = AnswerAccepted(answer)
    /\ last' = [op |-> "answer", answer |-> answer]
    /\ UNCHANGED <<page, recipe_view, recipes, file, builder,
                   imported_recipe_data, clock, calls>>

(* view_recipes_page, "My Recipes": load the file into an empty list       *)
LoadedRecipes(view, session_recipes) ==
    IF view = "My Recipes" /\ file.exists /\ session_recipes = <<>>
    THEN file.recipes
    ELSE session_recipes

(* main: the sidebar radio, then the page drawn; the collection radio of   *)
(* View Recipes starts at its first option                                 *)
Navigate(to) ==
    /\ entered_app
    /\ page' = to
    /\ recipe_view' = "My Recipes"
    /\ recipes' = IF to = "View Recipes"
                  THEN LoadedRecipes("My Recipes", recipes) ELSE recipes
    /\ last' = Idle
    /\ UNCHANGED <<entered_app, file, builder, imported_recipe_data, clock, calls>>

(* view_recipes_page: the collection radio                                 *)
SelectCollection(view) ==
    /\ entered_app
    /\ page = "View Recipes"
    /\ recipe_view' = view
    /\ recipes' = LoadedRecipes(view, recipes)
    /\ last' = Idle
    /\ UNCHANGED <<entered_app, page, file, builder, imported_recipe_data, clock,
                   calls>>

(* the list without its last element, whatever idx                        *)
PopLast(s, idx) == SubSeq(s, 1, Len(s) - 1)

(* recipes.pop(idx), Python's index idx the position idx + 1 here          *)
Pop(s, idx) == SubSeq(s, 1, idx - 1) \o SubSeq(s, idx + 1, Len(s))

(* Delete Recipe that pops the list in memory and leaves the file         *)
DeleteRecipeInMemory(idx) ==
    /\ entered_app
    /\ page = "View Recipes"
    /\ recipe_view = "My Recipes"
    /\ CardDrawn(recipes, idx)
    /\ recipes' = Pop(recipes, idx)
    /\ last' = [op |-> "delete", idx |-> idx]
    /\ UNCHANGED <<entered_app, page, recipe_view, file, builder,
                   imported_recipe_data, clock, calls>>

(* view_recipes_page: Delete Recipe on card idx of "My Recipes"            *)
DeleteRecipe(idx) ==
    /\ entered_app
    /\ page = "View Recipes"
    /\ recipe_view = "My Recipes"
    /\ CardDrawn(recipes, idx)
    /\ recipes' = Pop(recipes, idx)
    /\ file' = [exists |-> TRUE, recipes |-> recipes']
    /\ last' = [op |-> "delete", idx |-> idx]
    /\ UNCHANGED <<entered_app, page, recipe_view, builder,
                   imported_recipe_data, clock, calls>>

(* view_recipes_page: Import to Recipe Builder on card idx of a            *)
(* precompiled collection, then main's navigate_to_page                    *)
ImportRecipe(idx) ==
    /\ entered_app
    /\ page = "View Recipes"
    /\ recipe_view # "My Recipes"
    /\ CardDrawn(Precompiled(recipe_view), idx)
    /\ LET recipe == Precompiled(recipe_view)[idx]
       IN  /\ import_grain_bill' = ImportGrainBill(recipe)
           /\ import_hop_schedule' = ImportHopSchedule(recipe)
           /\ import_other_ingredients' = ImportOtherIngredients(recipe)
           /\ imported_recipe_data' = ImportedRecipeData(recipe)
           /\ last' = [op |-> "import", recipe |-> recipe]
    /\ page' = "Recipe Builder"
    /\ recipe_view' = "My Recipes"
    /\ UNCHANGED <<entered_app, recipes, file, clock, calls>>

(* main: what a run of the script draws, the gate or the page selected     *)
Rendered == IF ~entered_app THEN "entry_gate" ELSE page

OnBuilder == entered_app /\ page = "Recipe Builder"

(* recipe_scaler_page: Add Grain                                           *)
AddGrain(grain_name, grain_amount, original_batch_size, target_batch_size) ==
    /\ OnBuilder
    /\ grain_name # ""
    /\ Len(import_grain_bill) < MaxGrains
    /\ import_grain_bill' = Append(import_grain_bill,
          [name            |-> grain_name,
           original_amount |-> grain_amount,
           scaled_amount   |-> ScaledAmount(grain_amount,
                                  ScaleFactor(original_batch_size,
                                              target_batch_size))])
    /\ last' = Idle
    /\ UNCHANGED <<entered_app, page, recipe_view, recipes, file,
                   import_hop_schedule, import_other_ingredients,
                   imported_recipe_data, clock, calls>>

(* recipe_scaler_page: Remove Last                                         *)
RemoveLastGrain ==
    /\ OnBuilder
    /\ import_grain_bill # <<>>
    /\ import_grain_bill' = SubSeq(import_grain_bill, 1,
                                   Len(import_grain_bill) - 1)
    /\ last' = Idle
    /\ UNCHANGED <<entered_app, page, recipe_view, recipes, file,
                   import_hop_schedule, import_other_ingredients,
                   imported_recipe_data, clock, calls>>

(* recipe_scaler_page: Clear Grain Bill                                    *)
ClearGrainBill ==
    /\ OnBuilder
    /\ import_grain_bill # <<>>
    /\ import_grain_bill' = <<>>
    /\ last' = Idle
    /\ UNCHANGED <<entered_app, page, recipe_view, recipes, file,
                   import_hop_schedule, import_other_ingredients,
                   imported_recipe_data, clock, calls>>

(* recipe_scaler_page: Add Hop                                             *)
AddHop(hop_name, hop_amount, hop_timing, original_batch_size, target_batch_size) ==
    /\ OnBuilder
    /\ hop_name # ""
    /\ Len(import_hop_schedule) < MaxHops
    /\ import_hop_schedule' = Append(import_hop_schedule,
          [variety         |-> hop_name,
           original_amount |-> hop_amount,
           scaled_amount   |-> ScaledAmount(hop_amount,
                                  ScaleFactor(original_batch_size,
                                              target_batch_size)),
           time            |-> hop_timing])
    /\ last' = Idle
    /\ UNCHANGED <<entered_app, page, recipe_view, recipes, file,
                   import_grain_bill, import_other_ingredients,
                   imported_recipe_data, clock, calls>>

(* recipe_scaler_page: Clear Hop Schedule                                  *)
ClearHopSchedule ==
    /\ OnBuilder
    /\ import_hop_schedule # <<>>
    /\ import_hop_schedule' = <<>>
    /\ last' = Idle
    /\ UNCHANGED <<entered_app, page, recipe_view, recipes, file,
                   import_grain_bill, import_other_ingredients,
                   imported_recipe_data, clock, calls>>

(* recipe_scaler_page: Add (other ingredient)                              *)
AddOther(other_name, other_amount, other_unit, other_scale) ==
    /\ OnBuilder
    /\ other_name # ""
    /\ Len(import_other_ingredients) < MaxOthers
    /\ import_other_ingredients' = Append(import_other_ingredients,
          [name            |-> other_name,
           original_amount |-> other_amount,
           unit            |-> other_unit,
           should_scale    |-> other_scale /\ other_unit \in ScalableUnits])
    /\ last' = Idle
    /\ UNCHANGED <<entered_app, page, recipe_view, recipes, file,
                   import_grain_bill, import_hop_schedule,
                   imported_recipe_data, clock, calls>>

(* recipe_scaler_page: Clear Other Ingredients                             *)
ClearOtherIngredients ==
    /\ OnBuilder
    /\ import_other_ingredients # <<>>
    /\ import_other_ingredients' = <<>>
    /\ last' = Idle
    /\ UNCHANGED <<entered_app, page, recipe_view, recipes, file,
                   import_grain_bill, import_hop_schedule,
                   imported_recipe_data, clock, calls>>

(* recipe_scaler_page: Clear All                                           *)
ClearAll ==
    /\ OnBuilder
    /\ import_grain_bill' = <<>>
    /\ import_hop_schedule' = <<>>
    /\ import_other_ingredients' = <<>>
    /\ last' = Idle
    /\ UNCHANGED <<entered_app, page, recipe_view, recipes, file,
                   imported_recipe_data, clock, calls>>

(* the value a number_input shows before the user types one                *)
DefaultOG == GetNumOr(imported_recipe_data, "og", 1050)

DefaultFG == GetNumOr(imported_recipe_data, "fg", 1010)

(* recipe_scaler_page: the recipe dict of Save Scaled Recipe, without the  *)
(* fields that only echo an input of the page (style, brewer, brew_date,   *)
(* the mash, boil and fermentation settings, notes)                        *)
ScaledRecipe(recipe_name, f, target_batch_size, water, target_og, target_fg, yeast_info) ==
    LET other == ConvertOtherIngredients(import_other_ingredients, f)
    IN  [name         |-> recipe_name,
         batch_size   |-> target_batch_size,
         efficiency   |-> 75,
         grain_bill   |-> ConvertGrainBill(import_grain_bill, f),
         hop_schedule |-> ConvertHopSchedule(import_hop_schedule, f),
         yeast        |-> [str |-> IF yeast_info # "" THEN yeast_info
                                   ELSE "N/A"],
         og           |-> target_og,
         fg           |-> target_fg,
         abv          |-> IF target_og # 0 /\ target_fg # 0
                          THEN calculate_abv(target_og, target_fg) ELSE 0,
         created_at   |-> clock]
        @@ Field("other_ingredients", other # <<>>, other)
        @@ Field("mash_volume", water.mash.num > 0, water.mash)
        @@ Field("sparge_volume", water.sparge.num > 0, water.sparge)
        @@ Field("pre_boil_volume", water.pre_boil.num > 0, water.pre_boil)
        @@ Field("final_volume", water.final.num > 0, water.final)

(* recipe_scaler_page: Save Scaled Recipe                                  *)
SaveScaledRecipe(recipe_name, original_batch_size, target_batch_size, import_final_volume, water_to_grist_ratio, target_og, target_fg) ==
    /\ OnBuilder
    /\ IF recipe_name = ""
          \/ (import_grain_bill = <<>> /\ import_hop_schedule = <<>>)
       THEN /\ last' = [op |-> "save", saved |-> FALSE]
            /\ UNCHANGED <<recipes, file, builder, clock>>
       ELSE /\ clock < MaxSaves
            /\ LET f      == ScaleFactor(original_batch_size,
                                         target_batch_size)
                   water  == WaterVolumes(import_grain_bill, f,
                                          import_final_volume,
                                          water_to_grist_ratio)
                   recipe == ScaledRecipe(recipe_name, f, target_batch_size,
                                 water, target_og, target_fg,
                                 Get(imported_recipe_data, "yeast", ""))
               IN  /\ recipes' = Append(recipes, recipe)
                   /\ file' = [exists |-> TRUE, recipes |-> recipes']
                   /\ last' = [op                  |-> "save",
                               saved               |-> TRUE,
                               original_batch_size |-> original_batch_size,
                               target_batch_size   |-> target_batch_size,
                               grain_bill          |-> import_grain_bill,
                               hop_schedule        |-> import_hop_schedule,
                               other_ingredients   |-> import_other_ingredients,
                               water               |-> water,
                               recipe              |-> recipe]
            /\ import_grain_bill' = <<>>
            /\ import_hop_schedule' = <<>>
            /\ import_other_ingredients' = <<>>
            /\ clock' = clock + 1
    /\ UNCHANGED <<entered_app, page, recipe_view, imported_recipe_data,
                   calls>>

(* the value both batch size inputs show before the user types one        *)
DefaultBatchSize == Get(imported_recipe_data, "batch_size", 19)

(* Sessions, navigation and the recipe file: every page and the builder's  *)
(* grain form, the numeric inputs of the builder left as they show.        *)
Next ==
    \/ NewSession
    \/ \E answer \in Answers : SubmitAnswer(answer)
    \/ \E to \in Pages : Navigate(to)
    \/ \E view \in Collections : SelectCollection(view)
    \/ \E idx \in 1..Len(recipes) : DeleteRecipe(idx)
    \/ \E n \in GrainNames, a \in GrainAmounts :
          AddGrain(n, a, DefaultBatchSize, DefaultBatchSize)
    \/ RemoveLastGrain
    \/ ClearGrainBill
    \/ ClearAll
    \/ \E n \in RecipeNames :
          SaveScaledRecipe(n, DefaultBatchSize, DefaultBatchSize,
                           10 * DefaultBatchSize, 25, DefaultOG, DefaultFG)

Spec == Init /\ [][Next]_vars

(* The builder with every input varied, a session up to its first save:   *)
(* Save empties the three lists and leaves the rest of the session as it   *)
(* was, so a later save starts from a state an earlier one starts from.    *)
NextBuilder ==
    \/ clock = 0 /\ \E answer \in Answers : SubmitAnswer(answer)
    \/ clock = 0 /\ \E to \in Pages : Navigate(to)
    \/ clock = 0 /\ \E view \in Collections : SelectCollection(view)
    \/ clock = 0 /\ \E idx \in 1..Max(Len(ForumRecipes), Len(GuysRecipes)) :
          ImportRecipe(idx)
    \/ clock = 0 /\ \E n \in GrainNames, a \in GrainAmounts, o \in BatchSizes,
          t \in BatchSizes : AddGrain(n, a, o, t)
    \/ clock = 0 /\ RemoveLastGrain
    \/ clock = 0 /\ ClearGrainBill
    \/ clock = 0 /\ \E n \in HopNames, a \in HopAmounts, m \in HopTimes,
          o \in BatchSizes, t \in BatchSizes : AddHop(n, a, m, o, t)
    \/ clock = 0 /\ ClearHopSchedule
    \/ clock = 0 /\ \E n \in OtherNames, a \in OtherAmounts, u \in OtherUnits,
          s \in BOOLEAN : AddOther(n, a, u, s)
    \/ clock = 0 /\ ClearOtherIngredients
    \/ clock = 0 /\ ClearAll
    \/ clock = 0 /\ \E n \in RecipeNames, o \in BatchSizes, t \in BatchSizes,
          r \in Ratios, og \in TypedOG \cup {DefaultOG},
          fg \in TypedFG \cup {DefaultFG} :
          \E v \in FinalVolumes \cup {10 * t} :
              SaveScaledRecipe(n, o, t, v, r, og, fg)

SpecBuilder == Init /\ [][NextBuilder]_vars

(* ----------------------- the calculators, called ----------------------- *)

MaxAdditions == 2

SeqsUpTo(S, n) == UNION {[1..k -> S] : k \in 0..n}

(* grains: weights of 0.04, 0.5 and 1.25 kg, a negative one, and entries   *)
(* that lack ppg or lovibond                                               *)
GrainWeights == {4, 50, 125}

Grains ==
    {[type |-> "Pale Malt", weight |-> w, ppg |-> 37, lovibond |-> 20] :
        w \in GrainWeights}

BadGrains ==
    { [type |-> "Pale Malt", weight |-> -500, ppg |-> 37, lovibond |-> 20],
      [type |-> "Pale Malt", weight |-> 125, lovibond |-> 20],
      [type |-> "Pale Malt", weight |-> 125, ppg |-> 37] }

(* a grain as the scaler saves it: ppg 35, lovibond 0                      *)
ColourlessGrains ==
    { [type |-> "Pale Malt", weight |-> 125, ppg |-> 35, lovibond |-> 0] }

(* the grain bill of the OG reference value, 5 kg of ppg 37, and its double *)
ReferenceGrainBills ==
    { << [type |-> "Pale Malt", weight |-> w, ppg |-> 37, lovibond |-> 20] >> :
        w \in {500, 1000} }

(* hops: 0.3 g and 28.5 g at 5.5 % for 60 min, a negative weight, and an   *)
(* entry that lacks alpha_acid                                             *)
HopWeights == {3, 285}

Hops ==
    {[variety |-> "Cascade", weight |-> w, time |-> 60, alpha_acid |-> 55] :
        w \in HopWeights}

BadHops ==
    { [variety |-> "Cascade", weight |-> -280, time |-> 60, alpha_acid |-> 55],
      [variety |-> "Cascade", weight |-> 285, time |-> 60] }

LitreSizes == {1, 10, 19}

BadLitreSizes == {-19, 0}

Gravities == {1000, 1050, 1060}

GrainCalls ==
    [of : {"grains"},
     grain_bill : SeqsUpTo(Grains \cup BadGrains \cup ColourlessGrains,
                           MaxAdditions),
     batch_size : LitreSizes \cup BadLitreSizes]
      \cup [of : {"grains"}, grain_bill : ReferenceGrainBills,
            batch_size : {19, 38}]

HopCalls ==
    [of : {"hops"},
     hop_additions : SeqsUpTo(Hops \cup BadHops, MaxAdditions),
     og : Gravities \cup {990},
     batch_size : LitreSizes \cup BadLitreSizes]

(* specific gravities of the brewing range, 1.000 to 1.200 by 0.001        *)
SpecificGravities == 1000..1200

SGCalls == [of : {"sg"}, sg : SpecificGravities]

(* priming sugar: a volume in litres, the CO2 volumes wanted in 0.1, the   *)
(* sugar ("honey" is none of sugar_factors) and the beer's temperature;    *)
(* with these volumes no product lies on a tie of round(sugar_g, 1)        *)
PrimingCalls ==
    [of : {"priming"},
     volume_liters : {20, 40},
     co2_volumes : {15, 21, 25},
     sugar_type : {"corn", "table", "dme", "honey"},
     beer_temp : {0, 4, 20}]

(* two calls of calculate_ibu_tinseth in flight at once, each with its own *)
(* arguments                                                               *)
Threads == 1..2

ThreadCalls ==
    [of : {"threads"},
     calls : [Threads -> [hop_additions : SeqsUpTo(Hops, MaxAdditions),
                          og : {1000, 1050},
                          batch_size : {19}]]]

(* boil times in minutes: the builder's 0 to 120, and two far beyond       *)
BoilTimes == {0, 5, 60, 120, 1000, 2000}

(* one hop boiled for a shorter and for a longer time, all else the same   *)
BoilTimeCalls ==
    {c \in [of : {"boil times"},
            hop : Hops \cup {[variety |-> "Cascade", weight |-> 0,
                              time |-> 60, alpha_acid |-> 55]},
            og : {990, 1000, 1060},
            batch_size : {19, -19},
            shorter : BoilTimes,
            longer : BoilTimes] : c.shorter < c.longer}

(* (og - fg) * 131.25 is a tie of round(abv, 2) when og - fg is 4 modulo   *)
(* 8 thousandths, where the float product decides; no pair drawn is one    *)
FinalGravities == {1010, 1015}

(* calculate_calories: volume_oz, 12 oz when the caller gives none         *)
ServingOunces == {12, 16}

GravityCalls == [of : {"gravities"}, og : Gravities \cup {1775}, fg : FinalGravities]

FactorCalls ==
    [of : {"batch sizes"},
     original_batch_size : LitreSizes \cup BadLitreSizes,
     target_batch_size : LitreSizes]

RescaleGrainCalls ==
    [of : {"rescale grains"},
     grain_bill : SeqsUpTo(Grains, MaxAdditions) \ {<<>>},
     original_batch_size : LitreSizes,
     target_batch_size : LitreSizes]

RescaleHopCalls ==
    [of : {"rescale hops"},
     hop_schedule : SeqsUpTo(Hops, MaxAdditions) \ {<<>>},
     og : Gravities,
     original_batch_size : LitreSizes,
     target_batch_size : LitreSizes]

InitCalls ==
    /\ AppInit
    /\ args \in GrainCalls \cup HopCalls \cup GravityCalls \cup FactorCalls
                  \cup RescaleGrainCalls \cup RescaleHopCalls
                  \cup BoilTimeCalls \cup SGCalls \cup ThreadCalls
                  \cup PrimingCalls
    /\ out = NoDict

(* one call of fn on args, its result kept in out                          *)
Call(of, fn, result) ==
    /\ args.of = of
    /\ out = NoDict
    /\ out' = [fn |-> fn] @@ result
    /\ UNCHANGED <<entered_app, page, recipe_view, recipes, file, builder,
                   imported_recipe_data, clock, last, args>>

CallCalculateOG ==
    Call("grains", "app.calculate_og",
         calculate_og(args.grain_bill, args.batch_size))

CallCalculateOriginalGravity ==
    Call("grains", "calculations.calculate_original_gravity",
         calculate_original_gravity(args.grain_bill, args.batch_size, 75))

CallCalculateSRM ==
    Call("grains", "app.calculate_srm",
         calculate_srm(args.grain_bill, args.batch_size))

CallCalculateSRMMorey ==
    Call("grains", "calculations.calculate_srm_morey",
         calculate_srm_morey(args.grain_bill, args.batch_size))

CallCalculateIBU ==
    Call("hops", "app.calculate_ibu",
         calculate_ibu(args.hop_additions, args.og, args.batch_size))

CallCalculateIBUTinseth ==
    Call("hops", "calculations.calculate_ibu_tinseth",
         calculate_ibu_tinseth(args.hop_additions, args.og, args.batch_size))

CallCalculateABV ==
    Call("gravities", "app.calculate_abv", Ok(calculate_abv(args.og, args.fg)))

CallCalculationsCalculateABV ==
    Call("gravities", "calculations.calculate_abv",
         Ok(calculations_calculate_abv(args.og, args.fg)))

CallCalculateAttenuation ==
    Call("gravities", "calculations.calculate_attenuation",
         calculate_attenuation(args.og, args.fg))

CallCalculateCalories ==
    \E volume_oz \in ServingOunces :
        Call("gravities", "calculations.calculate_calories",
             calculate_calories(args.og, args.fg, volume_oz)
                 @@ [volume_oz |-> volume_oz])

(* ibu, the term one hop adds to total_ibu before it is rounded, as the    *)
(* quotient of alpha_acid * weight * utilization by batch_size; the        *)
(* constant both files multiply every term by (7490, or 10 / 100) left out *)
HopContribution(hop, og, batch_size) ==
    Rat(Sign(batch_size) * HopBitterness(<<hop>>, og)[1], Abs(batch_size))

(* the same with the boil time factor at 1 / 4.15                          *)
HopContributionCeiling(hop, og, batch_size) ==
    Rat(Sign(batch_size) * hop.alpha_acid * hop.weight
            * RoundHalfEven(BignessTable[og] * BoilTimeCeiling, 10000),
        Abs(batch_size))

CallCalculatePrimingSugar ==
    Call("priming", "calculations.calculate_priming_sugar",
         Ok(calculate_priming_sugar(args.volume_liters, args.co2_volumes,
                                    args.sugar_type)))

(* calculator_page: the selectbox offers corn sugar and table sugar        *)
ShowPrimingSugar ==
    /\ args.of = "priming"
    /\ args.sugar_type \in {"corn", "table"}
    /\ Call("priming", "app.calculator_page",
            PrimingSugarCalculator(args.volume_liters, args.beer_temp,
                                   args.co2_volumes, args.sugar_type))

(* calculate_ibu_tinseth entered by both threads: total_ibu = 0            *)
EnterThreads ==
    Call("threads", "calculations.calculate_ibu_tinseth",
         [frames |-> [t \in Threads |->
                         [pc |-> "for", hop |-> 1, total_ibu |-> 0]]])

(* total_ibu as one name of the module, shared by the calls in flight      *)
total_ibu_shared(frames, t) == frames[1].total_ibu

(* total_ibu, a local of the call of thread t                              *)
total_ibu(frames, t) == frames[t].total_ibu

(* one turn of `for hop in hop_additions` in thread t: total_ibu += ibu     *)
AddHopBitterness(t) ==
    /\ args.of = "threads"
    /\ out # NoDict
    /\ out.frames[t].pc = "for"
    /\ out.frames[t].hop <= Len(args.calls[t].hop_additions)
    /\ LET frame == out.frames[t]
           ibu   == HopBitterness(args.calls[t].hop_additions,
                                  args.calls[t].og)[frame.hop]
       IN  out' = [out EXCEPT !.frames[t] =
                      [pc        |-> "for",
                       hop       |-> frame.hop + 1,
                       total_ibu |-> total_ibu(out.frames, t) + ibu]]
    /\ UNCHANGED <<entered_app, page, recipe_view, recipes, file, builder,
                   imported_recipe_data, clock, last, args>>

(* the loop of thread t is over: return round(total_ibu, 1)                *)
ReturnIBU(t) ==
    /\ args.of = "threads"
    /\ out # NoDict
    /\ out.frames[t].pc = "for"
    /\ out.frames[t].hop > Len(args.calls[t].hop_additions)
    /\ out' = [out EXCEPT !.frames[t] =
                  [pc        |-> "returned",
                   hop       |-> out.frames[t].hop,
                   total_ibu |-> total_ibu(out.frames, t),
                   val       |-> RoundMulDiv(total_ibu(out.frames, t), 1,
                                             1000000,
                                             args.calls[t].batch_size)]]
    /\ UNCHANGED <<entered_app, page, recipe_view, recipes, file, builder,
                   imported_recipe_data, clock, last, args>>

(* convert_plato_to_sg(convert_sg_to_plato(sg))                            *)
ConvertThereAndBack ==
    LET plato == convert_sg_to_plato(args.sg)
    IN  Call("sg", "calculations.convert_plato_to_sg",
             [kind  |-> "ok",
              plato |-> plato,
              val   |-> convert_plato_to_sg(plato)])

(* the term of total_ibu of the hop in args at its two boil times          *)
CompareBoilTimes ==
    Call("boil times", "ibu",
         [kind    |-> "ok",
          shorter |-> HopContribution([args.hop EXCEPT !.time = args.shorter],
                                      args.og, args.batch_size),
          longer  |-> HopContribution([args.hop EXCEPT !.time = args.longer],
                                      args.og, args.batch_size),
          ceiling |-> HopContributionCeiling(args.hop, args.og,
                                             args.batch_size)])

(* recipe_scaler_page, lines 1063-1069, on the two batch sizes             *)
ComputeScaleFactor ==
    Call("batch sizes", "scale_factor",
         Ok(ScaleFactor(args.original_batch_size, args.target_batch_size)))

(* What the scaler makes of a recipe's grain bill: import_recipe_to_builder *)
(* brings it into the builder, Save converts it with the scale factor.     *)
ScalerGrainBill(grain_bill, original_batch_size, target_batch_size) ==
    ConvertGrainBill(ImportGrainBill([grain_bill |-> grain_bill]),
                     ScaleFactor(original_batch_size, target_batch_size))

(* the same of a recipe's hop schedule                                     *)
ScalerHopSchedule(hop_schedule, original_batch_size, target_batch_size) ==
    ConvertHopSchedule(ImportHopSchedule([hop_schedule |-> hop_schedule]),
                       ScaleFactor(original_batch_size, target_batch_size))

(* the original batch size the builder shows after the import of a recipe *)
(* saved with batch size batch_size                                        *)
ImportedBatchSize(batch_size) ==
    Get(ImportedRecipeData([batch_size |-> batch_size]), "batch_size", 19)

(* the grain bill with the weights the scaler gave                         *)
WithWeights(additions, scaled) ==
    [i \in 1..Len(additions) |->
        [additions[i] EXCEPT !.weight = scaled[i].weight]]

(* calculate_og before and after the scaler: the original grain bill at    *)
(* the original batch size, the scaler's weights at the target batch size; *)
(* and the scaler on its own output, from the target batch size back to    *)
(* the original                                                            *)
RescaleGrainBill ==
    LET scaled == ScalerGrainBill(args.grain_bill, args.original_batch_size,
                                  args.target_batch_size)
    IN  Call("rescale grains", "rescale grains",
             [scaled |-> scaled,
              back   |-> ScalerGrainBill(scaled,
                            ImportedBatchSize(args.target_batch_size),
                            args.original_batch_size),
              og     |-> calculate_og(args.grain_bill,
                                      args.original_batch_size),
              scaled_og |-> calculate_og(WithWeights(args.grain_bill, scaled),
                                         args.target_batch_size)])

(* calculate_ibu and calculate_ibu_tinseth before and after the scaler:    *)
(* the original hop schedule at the original batch size, the scaler's hop  *)
(* schedule at the target batch size                                       *)
RescaleHopSchedule ==
    LET scaled == ScalerHopSchedule(args.hop_schedule,
                                    args.original_batch_size,
                                    args.target_batch_size)
    IN  Call("rescale hops", "rescale hops",
             [scaled |-> scaled,
              back   |-> ScalerHopSchedule(scaled,
                            ImportedBatchSize(args.target_batch_size),
                            args.original_batch_size),
              ibu    |-> calculate_ibu(args.hop_schedule, args.og,
                                       args.original_batch_size),
              scaled_ibu |-> calculate_ibu(scaled, args.og,
                                           args.target_batch_size),
              tinseth |-> calculate_ibu_tinseth(args.hop_schedule, args.og,
                                                args.original_batch_size),
              scaled_tinseth |-> calculate_ibu_tinseth(
                                     scaled, args.og,
                                     args.target_batch_size)])

NextCalls ==
    \/ CallCalculateOG
    \/ CallCalculateOriginalGravity
    \/ CallCalculateSRM
    \/ CallCalculateSRMMorey
    \/ CallCalculateIBU
    \/ CallCalculateIBUTinseth
    \/ CallCalculateABV
    \/ CallCalculationsCalculateABV
    \/ CompareBoilTimes
    \/ CallCalculatePrimingSugar
    \/ ShowPrimingSugar
    \/ EnterThreads
    \/ \E t \in Threads : AddHopBitterness(t)
    \/ \E t \in Threads : ReturnIBU(t)
    \/ ConvertThereAndBack
    \/ CallCalculateAttenuation
    \/ CallCalculateCalories
    \/ ComputeScaleFactor
    \/ RescaleGrainBill
    \/ RescaleHopSchedule

SpecCalls == InitCalls /\ [][NextCalls]_vars

(* --------------------------- properties -------------------------------- *)

Called(of) == out # NoDict /\ args.of = of

(* every scaled weight is a whole number of 0.01 kg before it is rounded   *)
ExactlyScaled ==
    \A i \in 1..Len(args.grain_bill) :
        (args.grain_bill[i].weight * args.target_batch_size)
            % args.original_batch_size = 0

(* C1 (as stated): for every grain bill G with weights > 0, batch size     *)
(* B > 0 and factor f > 0, calculate_og of the scaler's weights            *)
(* (round(weight * f, 2)) at batch size B * f is within 0.001 of           *)
(* calculate_og of G at batch size B.                                      *)
C1_OGScaleInvariant ==
    Called("rescale grains") => Abs(out.scaled_og.val - out.og.val) <= 1

(* C1 (amended): the same, for every G, B and f such that each weight * f  *)
(* is a whole number of 0.01 kg, so that rounding to 2 decimals drops      *)
(* nothing.                                                                *)
C1_OGScaleInvariantWhenExact ==
    (Called("rescale grains") /\ ExactlyScaled)
        => Abs(out.scaled_og.val - out.og.val) <= 1

C1_Witness ==
    /\ Called("rescale grains")
    /\ ExactlyScaled
    /\ args.target_batch_size # args.original_batch_size
    /\ Len(args.grain_bill) > 1
    /\ out.og.val > 1000
    /\ out.scaled_og.val = out.og.val

(* C5: the scale factor is target / original when original > 0 and 1.0     *)
(* when original <= 0, and computing it raises no error in either case.    *)
C5_ScaleFactor ==
    Called("batch sizes") =>
        /\ out.kind = "ok"
        /\ out.val.den # 0
        /\ args.original_batch_size > 0 =>
              out.val.num * args.original_batch_size
                  = out.val.den * args.target_batch_size
        /\ args.original_batch_size <= 0 => out.val.num = out.val.den

C5_Witness ==
    /\ Called("batch sizes")
    /\ args.original_batch_size <= 0
    /\ args.target_batch_size > 1
    /\ out.val.num = out.val.den

(* C8: for every hop schedule, og >= 1.0, batch size B > 0 and factor      *)
(* f > 0, the IBU of the scaler's hop schedule at batch size B * f equals  *)
(* the IBU of the original hop schedule at batch size B, within rounding   *)
(* (0.1 IBU), for calculate_ibu and for calculate_ibu_tinseth.             *)
C8_IBUScaleInvariant ==
    Called("rescale hops") =>
        /\ Abs(out.scaled_ibu.val - out.ibu.val) <= 1
        /\ Abs(out.scaled_tinseth.val - out.tinseth.val) <= 1

Errors == {"ZeroDivisionError", "KeyError", "TypeError"}

(* the denominator of the call in args is zero                             *)
DenominatorCollapses ==
    \/ args.of \in {"grains", "hops"} /\ args.batch_size = 0
    \/ /\ args.of = "gravities"
       /\ \/ out.fn = "calculations.calculate_attenuation" /\ args.og = 1000
          \/ out.fn = "calculations.calculate_calories" /\ args.og = 1775

(* C9: every calculator whose denominator is zero (batch size 0 in the OG, *)
(* IBU and SRM calculators, og 1.000 in calculate_attenuation, og 1.775 in *)
(* calculate_calories) fails with an error; none returns zero, infinity or *)
(* NaN.                                                                    *)
C9_DivideByZeroExplicit ==
    (out # NoDict /\ DenominatorCollapses) => out.kind \in Errors

HasNegativeWeight(additions) ==
    \E i \in 1..Len(additions) :
        "weight" \in DOMAIN additions[i] /\ additions[i].weight < 0

(* the call in args has a negative weight, a batch size <= 0, an og < 1.0  *)
(* (IBU) or an addition without a field its calculator reads               *)
InvalidInput ==
    \/ /\ args.of = "grains"
       /\ \/ HasNegativeWeight(args.grain_bill)
          \/ args.batch_size <= 0
          \/ /\ out.fn \in {"app.calculate_og",
                            "calculations.calculate_original_gravity"}
             /\ ~AllHaveKeys(args.grain_bill, {"weight", "ppg"})
          \/ /\ out.fn \in {"app.calculate_srm",
                            "calculations.calculate_srm_morey"}
             /\ ~AllHaveKeys(args.grain_bill, {"weight", "lovibond"})
    \/ /\ args.of = "hops"
       /\ \/ HasNegativeWeight(args.hop_additions)
          \/ args.batch_size <= 0
          \/ args.og < 1000
          \/ ~AllHaveKeys(args.hop_additions,
                          {"weight", "alpha_acid", "time"})

(* C10: a calculator called with a negative ingredient weight, a batch     *)
(* size <= 0, an og < 1.0 (IBU) or an addition missing a required numeric  *)
(* field returns an error and no numeric result.                           *)
C10_InvalidInputRejected ==
    (out # NoDict /\ InvalidInput) => out.kind \in Errors

(* Save Scaled Recipe has just stored last.recipe                          *)
Saved == last.op = "save" /\ last.saved

(* the scale factor of the save in last                                    *)
SavedFactor == ScaleFactor(last.original_batch_size, last.target_batch_size)

(* C2: an other ingredient, whether added through the form or brought in   *)
(* by import_recipe_to_builder, has its amount multiplied by the scale     *)
(* factor only when its unit is g, kg, ml or L and the opt-in is on; with  *)
(* another unit (tsp, tbsp, packet) or with the opt-in off the saved       *)
(* amount is the original amount.                                          *)
C2_OtherScalingPolicy ==
    Saved =>
        \A i \in 1..Len(last.other_ingredients) :
            LET ingredient == last.other_ingredients[i]
                stored     == last.recipe.other_ingredients[i]
            IN  stored.amount =
                    IF ingredient.unit \in ScalableUnits
                       /\ ingredient.should_scale
                    THEN ScaledAmount(ingredient.original_amount, SavedFactor)
                    ELSE ingredient.original_amount

IsPrefix(s, t) == Len(s) <= Len(t) /\ \A i \in 1..Len(s) : s[i] = t[i]

(* C3: every recipe in the recipe file before a Save is still in it after  *)
(* the Save, in the same order, also when the Save is made in a fresh      *)
(* session that has not loaded the file.                                   *)
C3_AppendOnlyUnderSave ==
    [][clock' # clock => IsPrefix(file.recipes, file'.recipes)]_vars

(* C4: the og stored with a rescaled recipe is calculate_og of the scaled  *)
(* grain bill at the target batch size, its abv is calculate_abv of the    *)
(* stored og and fg, and an IBU and an SRM are stored with it.             *)
C4_StatisticsRecomputed ==
    Saved =>
        /\ last.recipe.og = calculate_og(last.recipe.grain_bill,
                                         last.recipe.batch_size).val
        /\ last.recipe.abv = calculate_abv(last.recipe.og, last.recipe.fg)
        /\ {"ibu", "srm"} \subseteq DOMAIN last.recipe

(* a Save that follows the import of last.recipe at once                   *)
SavesImported == last.op = "import" /\ last'.op = "save" /\ last'.saved

(* C6: every grain of a recipe brought into the scaler is saved with       *)
(* weight round(weight * factor, 2) and with its name, ppg and lovibond;   *)
(* the grain bill keeps its length and order.                              *)
C6_ScaleGrainBill ==
    [][SavesImported =>
        LET grain_bill == last.recipe.grain_bill
            scaled     == last'.recipe.grain_bill
            f          == ScaleFactor(last'.original_batch_size,
                                      last'.target_batch_size)
        IN  /\ Len(scaled) = Len(grain_bill)
            /\ \A i \in 1..Len(grain_bill) :
                  /\ scaled[i].weight
                        = RoundHalfEven(grain_bill[i].weight * f.num, f.den)
                  /\ scaled[i].type = grain_bill[i].type
                  /\ scaled[i].ppg = grain_bill[i].ppg
                  /\ scaled[i].lovibond = grain_bill[i].lovibond]_vars

(* C7: every hop addition of a recipe brought into the scaler is saved     *)
(* with weight round(weight * factor, 1) and with its variety, boil time   *)
(* and alpha acid; the hop schedule keeps its length and order.            *)
C7_ScaleHopSchedule ==
    [][SavesImported =>
        LET hop_schedule == last.recipe.hop_schedule
            scaled       == last'.recipe.hop_schedule
            f            == ScaleFactor(last'.original_batch_size,
                                        last'.target_batch_size)
        IN  /\ Len(scaled) = Len(hop_schedule)
            /\ \A i \in 1..Len(hop_schedule) :
                  /\ scaled[i].weight
                        = RoundHalfEven(hop_schedule[i].weight * f.num, f.den)
                  /\ scaled[i].variety = hop_schedule[i].variety
                  /\ scaled[i].time = hop_schedule[i].time
                  /\ scaled[i].alpha_acid = hop_schedule[i].alpha_acid]_vars

(* the grain bill in args has every field and no negative weight           *)
ValidGrainBill ==
    /\ AllHaveKeys(args.grain_bill, {"weight", "ppg", "lovibond"})
    /\ ~HasNegativeWeight(args.grain_bill)

(* C11: for every grain bill and batch size > 0 the metric SRM path        *)
(* (calculate_srm, MCU = sum(weight * lovibond) / batch) and the converted *)
(* path (calculate_srm_morey, MCU = sum(weight * 2.20462 * lovibond) /     *)
(* (batch * 0.264172)) give the same SRM.                                  *)
C11_SRMPathsAgree ==
    (Called("grains") /\ out.fn = "app.calculate_srm" /\ ValidGrainBill
        /\ args.batch_size > 0)
        => LET converted == calculate_srm_morey(args.grain_bill,
                                                args.batch_size)
           IN  out.kind = converted.kind /\ out.val = converted.val

(* every lovibond of the grain bill in args is 0                           *)
Colourless ==
    \A i \in 1..Len(args.grain_bill) :
        /\ "lovibond" \in DOMAIN args.grain_bill[i]
        /\ "weight" \in DOMAIN args.grain_bill[i]
        /\ args.grain_bill[i].lovibond = 0

(* C12: for every grain bill whose lovibonds are all 0 (a grain bill the   *)
(* scaler saved among them) and every batch size > 0, calculate_srm and    *)
(* calculate_srm_morey return exactly 0, not NaN and not an error.         *)
C12_SRMZero ==
    (Called("grains")
        /\ out.fn \in {"app.calculate_srm", "calculations.calculate_srm_morey"}
        /\ Colourless /\ args.batch_size > 0)
        => out.kind = "ok" /\ out.val = 0

C12_Witness ==
    /\ Called("grains")
    /\ out.fn = "calculations.calculate_srm_morey"
    /\ Colourless
    /\ args.batch_size > 0
    /\ Len(args.grain_bill) > 0
    /\ args.grain_bill[1].weight > 0
    /\ out.val = 0

(* the call in args is the OG reference: 5 kg of ppg 37 in 19 L, or its    *)
(* double, 10 kg in 38 L                                                   *)
ReferenceCall ==
    /\ args.grain_bill \in ReferenceGrainBills
    /\ args.batch_size * 500 = args.grain_bill[1].weight * 19

(* C16: for the grain bill [5 kg, ppg 37] in 19 L and for its double       *)
(* (10 kg, 38 L), each OG implementation, called with its default          *)
(* efficiency, returns 1.057.                                              *)
C16_OGReferenceValue ==
    (Called("grains")
        /\ out.fn \in {"app.calculate_og",
                       "calculations.calculate_original_gravity"}
        /\ ReferenceCall)
        => out.kind = "ok" /\ out.val = 1057

(* ---- the water volumes of a save ---------------------------------------- *)

(* the total grain weight of the save in last, scaled, in kg               *)
SavedGrainWeight ==
    Rat(SumSeq([i \in 1..Len(last.grain_bill) |->
                   last.grain_bill[i].original_amount]) * SavedFactor.num,
        100 * SavedFactor.den)

(* a * b = c, a + b = c and a - b = c over quotients                       *)
RatTimes(a, b, c) == a.num * b.num * c.den = c.num * a.den * b.den

RatPlus(a, b, c) == (a.num * b.den + b.num * a.den) * c.den = c.num * a.den * b.den

RatMinus(a, b) == Rat(a.num * b.den - b.num * a.den, a.den * b.den)

(* q is a number of one decimal                                            *)
OneDecimal(q) == 10 % q.den = 0

(* q is 0                                                                  *)
IsZero(q) == q.num = 0

(* C13: with total grain weight > 0 and final volume > 0, mash volume =    *)
(* grain weight * ratio, grain absorption = grain weight * 1.0, boil-off = *)
(* final volume * 0.2, pre-boil = final + boil-off, sparge = max(0,        *)
(* pre-boil - (mash - absorption)), the sparge volume is never negative,   *)
(* and every volume stored with the saved recipe is rounded to 1 decimal.  *)
C13_WaterVolumes ==
    (Saved /\ SavedGrainWeight.num > 0 /\ last.water.final.num > 0)
        => LET w      == last.water
               runoff == RatMinus(w.mash, w.absorption)
               rest   == RatMinus(w.pre_boil, runoff)
           IN  /\ w.calculated
               /\ \E r \in Ratios : RatTimes(SavedGrainWeight, Rat(r, 10), w.mash)
               /\ w.absorption = SavedGrainWeight
               /\ RatTimes(w.final, Rat(2, 10), w.boil_off)
               /\ RatPlus(w.final, w.boil_off, w.pre_boil)
               /\ w.sparge = (IF rest.num > 0 THEN rest ELSE Rat(0, 1))
               /\ w.sparge.num >= 0
               /\ \A k \in {"mash_volume", "sparge_volume", "pre_boil_volume",
                            "final_volume"} :
                     k \in DOMAIN last.recipe => OneDecimal(last.recipe[k])

(* C14: whenever the total grain weight is 0 or the final volume is <= 0,  *)
(* the mash, sparge and pre-boil volumes are all 0 and the page shows its  *)
(* insufficient-input warning, in both cases and not only when the grain   *)
(* weight is 0.                                                            *)
C14_DegenerateVolumes ==
    (Saved /\ (SavedGrainWeight.num = 0 \/ last.water.final.num <= 0))
        => /\ IsZero(last.water.mash)
           /\ IsZero(last.water.sparge)
           /\ IsZero(last.water.pre_boil)
           /\ last.water.warning

(* ---- what Save accepts --------------------------------------------------- *)

(* C20: Save adds a recipe to the collection only when it has a non-empty  *)
(* name and at least one grain addition; a Save with an empty name or an   *)
(* empty grain bill leaves the collection in memory and the recipe file    *)
(* unchanged.                                                              *)
C20_SaveNeedsNameAndGrain ==
    Saved => last.recipe.name # "" /\ last.recipe.grain_bill # <<>>

(* ---- alcohol and calories ------------------------------------------------ *)

(* C15: for every og and fg, fg > og included, calculate_abv returns       *)
(* (og - fg) * 131.25 rounded to 2 decimals and raises no error; fg > og   *)
(* gives a negative ABV, returned as it is; og 1.050 and fg 1.010 give     *)
(* exactly 5.25; app.calculate_abv and calculations.calculate_abv return   *)
(* the same value for every input.                                         *)
C15_ABV ==
    (Called("gravities")
        /\ out.fn \in {"app.calculate_abv", "calculations.calculate_abv"})
        => /\ out.kind = "ok"
           /\ Abs(1000 * out.val - (args.og - args.fg) * 13125) <= 500
           /\ args.fg > args.og => out.val < 0
           /\ (args.og = 1050 /\ args.fg = 1010) => out.val = 525
           /\ out.val = calculate_abv(args.og, args.fg)
           /\ out.val = calculations_calculate_abv(args.og, args.fg)

C15_Witness ==
    /\ Called("gravities")
    /\ out.fn = "calculations.calculate_abv"
    /\ args.fg > args.og
    /\ out.kind = "ok"
    /\ out.val < 0

(* the call in out is calculate_calories and og is not 1.775               *)
CaloriesCalled ==
    /\ Called("gravities")
    /\ out.fn = "calculations.calculate_calories"
    /\ args.og # 1775

(* C17 (as stated): for every og # 1.775 and fg, calculate_calories        *)
(* returns (alcohol + carbs) * (volume_oz / 12) truncated toward zero to   *)
(* an integer, not rounded to the nearest.                                 *)
C17_CaloriesTruncated ==
    CaloriesCalled
        => LET total == total_calories(args.og, args.fg, out.volume_oz)
           IN  out.kind = "ok"
               /\ out.val = Sign(total) * (Abs(total) \div 12000)

(* C17 (amended): for every og # 1.775 and fg, calculate_calories returns  *)
(* (alcohol + carbs) * (volume_oz / 12) rounded to the nearest integer.    *)
C17_CaloriesRounded ==
    CaloriesCalled
        => LET total == total_calories(args.og, args.fg, out.volume_oz)
           IN  out.kind = "ok" /\ Abs(12000 * out.val - total) <= 6000

C17_Witness ==
    /\ CaloriesCalled
    /\ out.kind = "ok"
    /\ LET total == total_calories(args.og, args.fg, out.volume_oz)
       IN  /\ 2 * (total % 12000) > 12000
           /\ out.val = (total \div 12000) + 1

(* ---- bitterness and boil time ------------------------------------------- *)

(* a < b over quotients                                                    *)
RatLess(a, b) == a.num * b.den < b.num * a.den

(* the call in out compares two boil times of a hop with weight > 0 and    *)
(* alpha acid > 0, at og >= 1.0 and batch size > 0                         *)
BoilTimesCompared ==
    /\ Called("boil times")
    /\ args.hop.weight > 0
    /\ args.hop.alpha_acid > 0
    /\ args.og >= 1000
    /\ args.batch_size > 0

C19_SGPlatoRoundTrip ==
    Called("sg")
        => /\ out.kind = "ok"
           /\ 10 * Abs(out.val - args.sg) <= 5
           /\ args.sg = 1050 => Abs(out.val - args.sg) <= 1

C19_Witness ==
    /\ Called("sg")
    /\ args.sg = 1050
    /\ out.plato = 1239
    /\ out.val = 1050

(* ---- the collection: delete, mirror -------------------------------------- *)

(* after is before without its element at position idx, the others in      *)
(* their order                                                             *)
RemovedAt(before, after, idx) ==
    /\ Len(after) = Len(before) - 1
    /\ \A j \in 1..Len(after) :
          after[j] = IF j < idx THEN before[j] ELSE before[j + 1]

C28_PersistedMirror ==
    [][/\ (last'.op = "delete" \/ (last'.op = "save" /\ last'.saved))
            => file'.exists /\ file'.recipes = recipes'
       /\ (last'.op = "save" /\ ~last'.saved) => file' = file]_vars

C28_Witness ==
    /\ Saved
    /\ file.exists
    /\ Len(recipes) = 2
    /\ file.recipes = recipes

(* ---- the entry gate ------------------------------------------------------ *)

(* C26: while entered_app is false no page (Home, Recipe Builder, View     *)
(* Recipes, Brewing Calculator) is drawn and none of their handlers acts;  *)
(* entered_app becomes true only by submitting an answer that, lower-cased *)
(* and trimmed, is the accepted answer; once true it stays true for the    *)
(* rest of the session.                                                    *)
C26_EntryGate ==
    [][/\ ~entered_app => Rendered \notin Pages
       /\ (~entered_app /\ ~NewSession)
            => UNCHANGED <<page, recipe_view, recipes, file, builder,
                           imported_recipe_data, clock>>
       /\ (~entered_app /\ entered_app')
            => /\ last'.op = "answer"
               /\ SubmitAnswer(last'.answer)
               /\ Strip(Lower(last'.answer)) = <<"w", "u", "r", "z", "e", "l",
                                                 " ", "t", "r", "e", "e">>
       /\ (entered_app /\ ~entered_app') => NewSession]_vars

C26_Witness ==
    /\ entered_app
    /\ Rendered = "Recipe Builder"
    /\ import_grain_bill # <<>>

(* ---- the calculators share nothing --------------------------------------- *)

(* thread t has returned                                                   *)
Returned(t) == Called("threads") /\ out.frames[t].pc = "returned"

(* C22: a call of a calculator reads and writes nothing but its arguments, *)
(* leaves the lists passed to it as they were, and returns the same result *)
(* for the same arguments: however two calls in flight are interleaved,    *)
(* each returns what it returns when run alone.                            *)
C22_CalculatorsPure ==
    [][/\ args' = args
       /\ UNCHANGED <<entered_app, page, recipe_view, recipes, file, builder,
                      imported_recipe_data, clock, last>>
       /\ \A t \in Threads :
             Returned(t)' =>
                 out'.frames[t].val
                     = calculate_ibu_tinseth(args.calls[t].hop_additions,
                                             args.calls[t].og,
                                             args.calls[t].batch_size).val
       /\ (Returned(1)' /\ Returned(2)' /\ args.calls[1] = args.calls[2])
             => out'.frames[1].val = out'.frames[2].val]_vars

C22_Witness ==
    /\ Returned(1)
    /\ out.frames[2].pc = "for"
    /\ out.frames[2].hop = 2
    /\ Len(args.calls[1].hop_additions) = 2
    /\ Len(args.calls[2].hop_additions) = 2
    /\ out.frames[1].val > 0
    /\ out.frames[2].total_ibu # out.frames[1].val

(* ---- priming sugar -------------------------------------------------------- *)

(* C23: for sugar_type corn, table or dme, calculate_priming_sugar returns *)
(* volume * co2_volumes * factor, the factor 1.32, 1.19 or 1.58, rounded   *)
(* to 1 decimal; the calculator page's priming sugar is another operation, *)
(* volume * (co2_level - dissolved_co2) * 4.39 for corn sugar and * 4.0    *)
(* for table sugar, and neither uses the constants of the other.           *)
C23_PrimingSugar ==
    Called("priming")
        => LET corn  == args.sugar_type = "corn"
               table == args.sugar_type = "table"
               dme   == args.sugar_type = "dme"
               grams == args.volume_liters * args.co2_volumes
           IN  /\ out.fn = "calculations.calculate_priming_sugar"
                    => /\ corn  => Abs(100 * out.val - grams * 132) <= 50
                       /\ table => Abs(100 * out.val - grams * 119) <= 50
                       /\ dme   => Abs(100 * out.val - grams * 158) <= 50
               /\ out.fn = "app.calculator_page"
                    => LET needed == 100000 * args.co2_volumes
                                         - out.dissolved_co2
                           factor == IF corn THEN 439 ELSE 400
                           exact  == args.volume_liters * needed
                       IN  /\ out.sugar_g
                                = RoundMulDiv(exact, factor, 10000000, 1)
                           /\ out.sugar_g
                                # calculate_priming_sugar(args.volume_liters,
                                        args.co2_volumes, args.sugar_type)

C23_Witness ==
    /\ Called("priming")
    /\ out.fn = "calculations.calculate_priming_sugar"
    /\ args.sugar_type = "dme"
    /\ args.volume_liters = 20
    /\ args.co2_volumes = 25
    /\ out.val = 790

(* ---- the two IBU constants ------------------------------------------------ *)

(* the call in out is calculate_ibu on hop additions with every field, a   *)
(* batch size that is not 0 and a sum of contributions that is not 0       *)
BitternessCalled ==
    /\ Called("hops")
    /\ out.fn = "app.calculate_ibu"
    /\ AllHaveKeys(args.hop_additions, {"weight", "alpha_acid", "time"})
    /\ args.batch_size # 0
    /\ SumSeq(HopBitterness(args.hop_additions, args.og)) # 0

(* C24: for the same hop additions, og and batch size with a non-zero      *)
(* contribution, calculate_ibu (alpha_acid * weight * utilization * 7490 / *)
(* batch) and calculate_ibu_tinseth (alpha_acid / 100 * weight *           *)
(* utilization * 10 / batch) differ, the first being 74900 times the       *)
(* second, each as rounded to 1 decimal.                                   *)
C24_IBUConstantsDiffer ==
    BitternessCalled
        => LET tinseth == calculate_ibu_tinseth(args.hop_additions, args.og,
                                                args.batch_size)
           IN  /\ out.kind = "ok" /\ tinseth.kind = "ok"
               /\ out.val # tinseth.val
               /\ 2 * Abs(out.val - 74900 * tinseth.val) <= 74900 + 1

C24_Witness ==
    /\ BitternessCalled
    /\ args.batch_size = 1
    /\ args.og = 1050
    /\ Len(args.hop_additions) = 2
    /\ out.val > 74900
    /\ calculate_ibu_tinseth(args.hop_additions, args.og,
                             args.batch_size).val > 0

(* ---- import into the builder ---------------------------------------------- *)

(* C25: importing a recipe into the builder yields its grain additions,    *)
(* hop additions, name, batch size and yeast whichever field names carry   *)
(* them (grain_bill or malts, hop_schedule or hops, type or name, time or  *)
(* timing, name or beer, batch_size or statistics.volume, yeast as string  *)
(* or record); a recipe whose card shows a non-empty grain bill imports a  *)
(* grain bill of the same length.                                          *)
C25_ImportNormalises ==
    last.op = "import"
        => LET recipe == last.recipe
               shown  == DisplayedGrainBill(recipe)
               hops   == DisplayedHopSchedule(recipe)
           IN  /\ Len(import_grain_bill) = Len(shown)
               /\ \A i \in 1..Len(shown) :
                     /\ import_grain_bill[i].name
                           = Get(shown[i], "type", Get(shown[i], "name", ""))
                     /\ import_grain_bill[i].original_amount = shown[i].weight
               /\ Len(import_hop_schedule) = Len(hops)
               /\ \A i \in 1..Len(hops) :
                     import_hop_schedule[i].time
                        = Get(hops[i], "time", Get(hops[i], "timing", 0))
               /\ imported_recipe_data.name
                     = Get(recipe, "name", Get(recipe, "beer", ""))
               /\ imported_recipe_data.batch_size
                     = Get(recipe, "batch_size",
                           Get(Get(recipe, "statistics", NoDict), "volume", 19))
               /\ imported_recipe_data.yeast # ""

(* ---- C27 ---------------------------------------------------------------- *)

(* the entries of a builder list before a step are its first entries after *)
Kept(before, after) ==
    /\ Len(after) >= Len(before)
    /\ \A i \in 1..Len(before) : after[i] = before[i]

GrainAdded ==
    \E n \in GrainNames, a \in GrainAmounts, o \in BatchSizes,
       t \in BatchSizes : AddGrain(n, a, o, t)

HopAdded ==
    \E n \in HopNames, a \in HopAmounts, m \in HopTimes, o \in BatchSizes,
       t \in BatchSizes : AddHop(n, a, m, o, t)

OtherAdded ==
    \E n \in OtherNames, a \in OtherAmounts, u \in OtherUnits,
       s \in BOOLEAN : AddOther(n, a, u, s)

(* the tables drawn under factor f show each entry's original amount and   *)
(* that amount times f                                                     *)
TablesFromOriginals(f) ==
    /\ \A i \in 1..Len(import_grain_bill) :
          LET row == GrainTable(import_grain_bill, f)[i]
          IN  /\ row.Original = import_grain_bill[i].original_amount
              /\ row.Scaled = RoundHalfEven(row.Original * f.num, f.den)
    /\ \A i \in 1..Len(import_hop_schedule) :
          LET row == HopTable(import_hop_schedule, f)[i]
          IN  /\ row.Original = import_hop_schedule[i].original_amount
              /\ row.Scaled = RoundHalfEven(row.Original * f.num, f.den)
    /\ \A i \in 1..Len(import_other_ingredients) :
          LET row == OtherTable(import_other_ingredients, f)[i]
          IN  /\ row.Original = import_other_ingredients[i].original_amount
              /\ row.Scaled =
                    IF Get(import_other_ingredients[i], "should_scale", TRUE)
                    THEN RoundHalfEven(row.Original * f.num, f.den)
                    ELSE row.Original

(* the recipe a save stores holds each entry's original amount times the   *)
(* factor of the save                                                      *)
SavedFromOriginals ==
    LET f      == ScaleFactor(last'.original_batch_size,
                              last'.target_batch_size)
        recipe == last'.recipe
    IN  /\ Len(recipe.grain_bill) = Len(import_grain_bill)
        /\ \A i \in 1..Len(import_grain_bill) :
              recipe.grain_bill[i].weight =
                 RoundHalfEven(import_grain_bill[i].original_amount * f.num,
                               f.den)
        /\ Len(recipe.hop_schedule) = Len(import_hop_schedule)
        /\ \A i \in 1..Len(import_hop_schedule) :
              recipe.hop_schedule[i].weight =
                 RoundHalfEven(import_hop_schedule[i].original_amount * f.num,
                               f.den)
        /\ \A i \in 1..Len(import_other_ingredients) :
              recipe.other_ingredients[i].amount =
                 IF Get(import_other_ingredients[i], "should_scale", TRUE)
                 THEN RoundHalfEven(
                         import_other_ingredients[i].original_amount * f.num,
                         f.den)
                 ELSE import_other_ingredients[i].original_amount

(* C27: adding an ingredient leaves every entry already in the builder as  *)
(* it was, original_amount included; the tables drawn under any batch      *)
(* sizes and the recipe a save stores hold original_amount times the scale *)
(* factor of that moment, rounded, whatever factor was in force when the   *)
(* ingredient was added.                                                   *)
C27_NoCompounding ==
    [][/\ GrainAdded => /\ Kept(import_grain_bill, import_grain_bill')
                        /\ UNCHANGED <<import_hop_schedule,
                                       import_other_ingredients>>
       /\ HopAdded => /\ Kept(import_hop_schedule, import_hop_schedule')
                      /\ UNCHANGED <<import_grain_bill,
                                     import_other_ingredients>>
       /\ OtherAdded => /\ Kept(import_other_ingredients,
                                import_other_ingredients')
                        /\ UNCHANGED <<import_grain_bill,
                                       import_hop_schedule>>
       /\ \A o \in BatchSizes, t \in BatchSizes :
             TablesFromOriginals(ScaleFactor(o, t))
       /\ (last'.op = "save" /\ last'.saved) => SavedFromOriginals]_vars

(* a recipe saved under a factor other than the one its grain and its hop  *)
(* were added under: the amounts stored at add time differ from the saved  *)
C27_Witness ==
    /\ last.op = "save"
    /\ last.saved
    /\ last.grain_bill # <<>>
    /\ last.hop_schedule # <<>>
    /\ last.grain_bill[1].scaled_amount # last.recipe.grain_bill[1].weight
    /\ last.hop_schedule[1].scaled_amount # last.recipe.hop_schedule[1].weight

(* ---- C30 ---------------------------------------------------------------- *)

RatSum(a, b) == Rat(a.num * b.den + b.num * a.den, a.den * b.den)

(* C30: whenever the water volumes are calculated (grain weight > 0, final *)
(* volume > 0, ratio between 2.0 and 4.0 L/kg), mash + sparge - grain      *)
(* absorption is at least the pre-boil volume, and equal to it whenever    *)
(* the sparge volume is > 0; mash + sparge is never less than the final    *)
(* volume, so the expected loss of the exported recipe is never negative.  *)
(* The volumes are the exact quotients the page computes.                  *)
C30_WaterBalance ==
    (Saved /\ last.water.calculated)
        => LET w     == last.water
               total == RatSum(w.mash, w.sparge)
               kept  == RatMinus(total, w.absorption)
           IN  /\ ~RatLess(kept, w.pre_boil)
               /\ w.sparge.num > 0 => kept = w.pre_boil
               /\ ~RatLess(total, w.final)
               /\ HasWaterTotals(last.recipe)
                     => /\ TotalWater(last.recipe) = total
                        /\ ExpectedLoss(last.recipe).num >= 0

(* a recipe saved with a sparge volume > 0, its export showing the loss    *)
C30_Witness ==
    /\ Saved
    /\ last.water.calculated
    /\ last.water.sparge.num > 0
    /\ HasWaterTotals(last.recipe)
    /\ ExpectedLoss(last.recipe).num > 0

(* a recipe saved with the run-off of the mash alone above the pre-boil    *)
(* volume: no sparge water                                                 *)
C30_NoSparge ==
    /\ Saved
    /\ last.water.calculated
    /\ last.water.sparge.num = 0
    /\ RatLess(last.water.pre_boil,
               RatMinus(last.water.mash, last.water.absorption))

(* ---- C29 ---------------------------------------------------------------- *)

(* the weights of the additions, one after the other                       *)
WeightsOf(additions) == [i \in 1..Len(additions) |-> additions[i].weight]

====
